---------------------------- MODULE Spec2Model ----------------------------
(***************************************************************************)
(* A model of agentic-redpanda's routing, filtered delivery, threading and *)
(* resilient delivery code:                                                *)
(*   core/message_router.py        MessageRouter                           *)
(*   core/subscription_manager.py  SubscriptionManager                     *)
(*   core/error_handler.py         ErrorHandler, MessageErrorHandler       *)
(*   core/conversation_manager.py  ConversationManager                     *)
(*   core/topic_validator.py       TopicValidator                          *)
(*   core/topic_manager.py         TopicManager                            *)
(*   core/enhanced_agent.py        EnhancedAgent, with                     *)
(*   core/message_broker.py        MessageBroker                           *)
(* Every component is an object with its own fields; each has its own      *)
(* specification (SpecRouter, SpecRules, SpecSubs, SpecFilter, SpecErr,    *)
(* SpecIndex, SpecRetry, SpecMsgErr, SpecConv, SpecArchive, SpecPerm,       *)
(* SpecValidate, SpecAgent, SpecDelay, SpecTopics, SpecBroker) over the    *)
(* shared variable list, the other components staying as constructed.      *)
(* SpecLoop runs the router's and the subscription manager's calls as      *)
(* tasks of one event loop, statement by statement.                        *)
(***************************************************************************)
EXTENDS Integers, Sequences, FiniteSets, TLC

VARIABLES
    \* MessageRouter
    routing_rules,      \* self.routing_rules: list of RoutingRule
    route_history,      \* self.route_history: list of MessageRoute
    router_ret,         \* what the last MessageRouter call returned
    \* SubscriptionManager
    sub_heap,           \* the TopicSubscription objects, by identity
    subscriptions,      \* self.subscriptions: topic -> list of objects
    agent_subscriptions,\* self.agent_subscriptions: agent -> list of objects
    subs_ret,           \* what the last SubscriptionManager call returned
    \* _message_matches_filter applied to drawn inputs
    flt_in,             \* the (message, filter) pair drawn
    flt_out,            \* what _message_matches_filter gave for it
    \* ErrorHandler / MessageErrorHandler
    error_ctx,          \* the ErrorContext objects, by identity
    error_history,      \* self.error_history: list of ErrorContext objects
    retry_history,      \* self.retry_history: list of RetryAttempt
    retry_config,       \* self.retry_config
    eh_task,            \* the running handle_error call: its position and locals
    eh_ret,             \* what the last completed ErrorHandler call returned
    \* ConversationManager
    threads,            \* self.threads: thread id -> ConversationThread
    topic_threads,      \* self.topic_threads: topic -> list of thread ids
    agent_threads,      \* self.agent_threads: agent -> set of thread ids
    message_threads,    \* self.message_threads: message id -> thread id
    thread_messages,    \* self.thread_messages: thread id -> list of messages
    conversation_contexts, \* self.conversation_contexts: thread id -> context
    conv_now,           \* datetime.utcnow()
    conv_msgs,          \* the messages created so far, by id
    conv_log,           \* the last create_thread / add_message_to_thread calls
    \* TopicValidator
    topic_permissions,  \* self.topic_permissions: topic -> list of TopicPermission
    tv_ret,             \* what the last permission call returned
    tv_val,             \* the last validate_topic_name call and its result
    \* EnhancedAgent and its MessageBroker
    broker_consumers,   \* message_broker.consumers: the topics with a consumer
    broker_sent,        \* the producer.send calls of the last send_message
    agent_state,        \* subscribed_topics, conversation_history, last_activity
    agent_ret,          \* what the last EnhancedAgent call did and returned
    \* the asyncio event loop running router and subscription manager calls
    ev_tasks,           \* the tasks created: each one's call, position and locals
    ev_running,         \* the task the loop is running, 0 between tasks
    \* _calculate_delay applied to drawn inputs
    dly_in,             \* the (retry_config, attempt, clock reading) drawn
    dly_out,            \* what _calculate_delay gave for it
    \* TopicManager
    tm_topics,          \* self.topics: name -> TopicInfo
    tm_agent_subscriptions, \* self.agent_subscriptions: agent -> set of names
    tm_ret,             \* what the last TopicManager call returned
    \* MessageBroker shared by several agents
    mb_running,         \* self.running
    mb_consumers,       \* self.consumers: topic -> KafkaConsumer object
    mb_message_handlers,\* self.message_handlers: topic -> handler
    mb_tasks,           \* the consumers made, each with its _consume_messages task
    mb_ret              \* what the last MessageBroker call or task turn did

routerVars == <<routing_rules, route_history, router_ret>>
subsVars   == <<sub_heap, subscriptions, agent_subscriptions, subs_ret>>
fltVars    == <<flt_in, flt_out>>
errVars    == <<error_ctx, error_history, retry_history, retry_config, eh_task, eh_ret>>
convVars   == <<threads, topic_threads, agent_threads, message_threads,
                thread_messages, conversation_contexts, conv_now, conv_msgs, conv_log>>
tvVars     == <<topic_permissions, tv_ret, tv_val>>
agentVars  == <<broker_consumers, broker_sent, agent_state, agent_ret>>
loopVars   == <<ev_tasks, ev_running>>
dlyVars    == <<dly_in, dly_out>>
tmVars     == <<tm_topics, tm_agent_subscriptions, tm_ret>>
mbVars     == <<mb_running, mb_consumers, mb_message_handlers, mb_tasks, mb_ret>>
vars == <<routerVars, subsVars, fltVars, errVars, convVars, tvVars, agentVars,
          loopVars, dlyVars, tmVars, mbVars>>

None == "None"

(***************************************************************************)
(* Strings are sequences of one-character strings, so that str.lower() and *)
(* the substring test `a in b` are computed, not assumed.                  *)
(***************************************************************************)
UpperChars == <<"A","B","C","D","E","F","G","H","I","J","K","L","M",
                "N","O","P","Q","R","S","T","U","V","W","X","Y","Z">>
LowerChars == <<"a","b","c","d","e","f","g","h","i","j","k","l","m",
                "n","o","p","q","r","s","t","u","v","w","x","y","z">>

LowerChar(c) ==
    IF \E i \in 1..26 : UpperChars[i] = c
    THEN LowerChars[CHOOSE i \in 1..26 : UpperChars[i] = c]
    ELSE c

\* str.lower()
Lower(s) == [i \in 1..Len(s) |-> LowerChar(s[i])]

\* `sub in s` for two str values
StrIn(sub, s) ==
    \E i \in 0..(Len(s) - Len(sub)) : SubSeq(s, i + 1, i + Len(sub)) = sub

S_urgent    == <<"u","r","g","e","n","t">>
S_important == <<"i","m","p","o","r","t","a","n","t">>
S_task      == <<"t","a","s","k">>
S_ThisIsURGENT  == <<"T","h","i","s"," ","i","s"," ","U","R","G","E","N","T">>
S_routineUpdate == <<"r","o","u","t","i","n","e"," ","u","p","d","a","t","e">>
S_NewTask      == <<"N","e","w"," ","T","a","s","k">>
S_badRegex     == <<"(">>

\* MessagePriority and the priority_order dict of both route functions
Priorities == {"low", "normal", "high", "urgent"}
MessageTypes == {"text", "task", "result", "query", "response",
                 "notification", "error", "heartbeat"}

PriorityOrderGet(p) ==
    CASE p = "low"    -> 0
      [] p = "normal" -> 1
      [] p = "high"   -> 2
      [] p = "urgent" -> 3
      [] OTHER        -> 0

SeqToSet(s) == {s[i] : i \in 1..Len(s)}

\* list(a_set): every member once, in an order Python leaves to the hash seed.
\* A list whose order is unspecified is kept as the bag of its items (item ->
\* number of occurrences).
ListOfSet(S) == [x \in S |-> 1]

(***************************************************************************)
(* Bounds of the model.                                                    *)
(***************************************************************************)
\* rules the router may hold at once
MaxRules == 2
\* self.max_history_size of MessageRouter, 1000 in the source, scaled down so
\* that the trimming is reached
MaxHistorySize == 2

(***************************************************************************)
(* AgentMessage values.  metadata is a set of <<key, value>> pairs with    *)
(* distinct keys (a dict).                                                 *)
(***************************************************************************)
MetaHas(md, k) == \E kv \in md : kv[1] = k
MetaGet(md, k) == (CHOOSE kv \in md : kv[1] = k)[2]

Msg(id, sender, role, type, prio, content, topic, md, ts) ==
    [id |-> id, sender_id |-> sender, sender_role |-> role, message_type |-> type,
     priority |-> prio, content |-> content, topic |-> topic, metadata |-> md,
     timestamp |-> ts]

RouterMessages ==
    { Msg(1, "a1", "developer", "text", "urgent", S_ThisIsURGENT, "ops", {}, 0),
      Msg(2, "a2", "tester", "task", "high", S_NewTask, "tasks", {<<"env", "prod">>}, 1) }

(***************************************************************************)
(* MessageRouter (core/message_router.py).  A rule's condition is named by *)
(* a key; CondKind and CondVal give the Python value the key stands for.   *)
(***************************************************************************)
CondKind(c) ==
    CASE c \in {"kw_task", "rx_urgent", "rx_bad", "role_developer"} -> "str"
      [] c \in {"kw_urgent_important", "roles_dev_tester", "types_task"} -> "list"
      [] c \in {"type_task", "prio_high"} -> "enum"
      [] c \in {"meta_env_prod"} -> "dict"
      [] c \in {"fn_true", "fn_false", "fn_raises"} -> "callable"

CondVal(c) ==
    CASE c = "kw_task" -> S_task
      [] c = "rx_urgent" -> S_urgent
      [] c = "rx_bad" -> S_badRegex
      [] c = "role_developer" -> "developer"
      [] c = "kw_urgent_important" -> <<S_urgent, S_important>>
      [] c = "roles_dev_tester" -> <<"developer", "tester">>
      [] c = "types_task" -> <<"task">>
      [] c = "type_task" -> "task"
      [] c = "prio_high" -> "high"
      [] c = "meta_env_prod" -> {<<"env", "prod">>}
      [] c = "fn_true" -> "true"
      [] c = "fn_false" -> "false"
      [] c = "fn_raises" -> "raises"

\* `rule.condition if isinstance(rule.condition, list) else [rule.condition]`
AsList(c) == IF CondKind(c) = "list" THEN CondVal(c) ELSE <<CondVal(c)>>

\* what evaluating a Python expression gives: a value, or an exception
Ok(b) == [raised |-> FALSE, value |-> b]
Raised == [raised |-> TRUE, value |-> FALSE]

\* re.search(pattern, content, re.IGNORECASE) for the patterns of the model:
\* a pattern of letters only searches for itself, ignoring case; "(" does not
\* compile (re.error).
ReSearchIgnoreCase(pattern, content) ==
    IF pattern = S_badRegex THEN Raised
    ELSE Ok(StrIn(Lower(pattern), Lower(content)))

\* the body of _evaluate_rule's try block
EvaluateRuleBody(message, rule) ==
    LET c == rule.condition IN
    CASE rule.rule_type = "content_keyword" ->
            IF CondKind(c) \in {"str", "list", "enum"}
            THEN Ok(\E i \in 1..Len(AsList(c)) :
                       StrIn(Lower(AsList(c)[i]), Lower(message.content)))
            ELSE Raised             \* keyword.lower() on a non-string
      [] rule.rule_type = "content_regex" ->
            IF CondKind(c) \in {"str", "enum"}
            THEN ReSearchIgnoreCase(CondVal(c), message.content)
            ELSE Raised             \* re.search on a non-pattern
      [] rule.rule_type = "sender_role" ->
            IF CondKind(c) = "list"
            THEN Ok(message.sender_role \in SeqToSet(CondVal(c)))
            ELSE IF CondKind(c) \in {"str", "enum"}
                 THEN Ok(message.sender_role = CondVal(c))
                 ELSE Ok(FALSE)
      [] rule.rule_type = "message_type" ->
            IF CondKind(c) = "list"
            THEN Ok(message.message_type \in SeqToSet(CondVal(c)))
            ELSE IF CondKind(c) \in {"str", "enum"}
                 THEN Ok(message.message_type = CondVal(c))
                 ELSE Ok(FALSE)
      [] rule.rule_type = "priority" ->
            IF CondKind(c) \in {"str", "enum"}
            THEN Ok(PriorityOrderGet(message.priority) >= PriorityOrderGet(CondVal(c)))
            ELSE IF CondKind(c) = "callable"
                 THEN Ok(PriorityOrderGet(message.priority) >= 0)
                 ELSE Raised        \* dict.get of an unhashable list or dict
      [] rule.rule_type = "metadata" ->
            IF CondKind(c) # "dict" THEN Ok(FALSE)
            ELSE Ok(\A kv \in CondVal(c) :
                       MetaHas(message.metadata, kv[1])
                       /\ MetaGet(message.metadata, kv[1]) = kv[2])
      [] rule.rule_type = "custom" ->
            IF CondKind(c) = "callable"
            THEN (CASE CondVal(c) = "true" -> Ok(TRUE)
                    [] CondVal(c) = "false" -> Ok(FALSE)
                    [] OTHER -> Raised)
            ELSE Ok(FALSE)
      [] OTHER -> Ok(FALSE)

EvaluateRuleFailureMatches(message, rule) ==
    LET r == EvaluateRuleBody(message, rule) IN r.raised \/ r.value

\* _evaluate_rule: an exception of the body is logged and gives False
EvaluateRule(message, rule) ==
    LET r == EvaluateRuleBody(message, rule) IN
    IF r.raised THEN FALSE ELSE r.value

\* the rules callers add: (rule_id, rule_type, condition, target_topics, priority)
Rule(id, type, cond, targets, prio, active) ==
    [rule_id |-> id, rule_type |-> type, condition |-> cond,
     target_topics |-> targets, priority |-> prio, active |-> active]

RuleInputs ==
    { Rule("r1", "content_keyword", "kw_urgent_important", <<"alerts", "alerts">>, 0, TRUE),
      Rule("r2", "priority", "prio_high", <<"ops", "alerts">>, 0, TRUE),
      Rule("r3", "custom", "fn_raises", <<"tasks">>, 1, TRUE),
      Rule("r1", "message_type", "type_task", <<"tasks", "work">>, 1, TRUE) }

RuleIds == {r.rule_id : r \in RuleInputs}
RulePriorities == {0, 1}

\* list.sort(key=lambda r: r.priority, reverse=True): stable, so rules of one
\* priority keep their order
RECURSIVE InsertByPriority(_, _)
InsertByPriority(sorted, r) ==
    IF sorted = <<>> THEN <<r>>
    ELSE IF Head(sorted).priority >= r.priority
         THEN <<Head(sorted)>> \o InsertByPriority(Tail(sorted), r)
         ELSE <<r>> \o sorted

RECURSIVE SortByPriorityDesc(_)
SortByPriorityDesc(rules) ==
    IF rules = <<>> THEN <<>>
    ELSE InsertByPriority(SortByPriorityDesc(SubSeq(rules, 1, Len(rules) - 1)),
                          rules[Len(rules)])

\* route_message as it would be if it stopped at the first matching rule
RECURSIVE RouteLoopFirstMatch(_, _, _, _, _)
RouteLoopFirstMatch(rules, i, message, target_topics, matched_rules) ==
    IF i > Len(rules) THEN [target_topics |-> target_topics, matched_rules |-> matched_rules]
    ELSE IF ~rules[i].active
         THEN RouteLoopFirstMatch(rules, i + 1, message, target_topics, matched_rules)
         ELSE IF EvaluateRule(message, rules[i])
              THEN [target_topics |-> target_topics \cup SeqToSet(rules[i].target_topics),
                    matched_rules |-> Append(matched_rules, rules[i].rule_id)]
              ELSE RouteLoopFirstMatch(rules, i + 1, message, target_topics, matched_rules)

\* the for loop of route_message over rules[i..]: the set target_topics and
\* the list matched_rules it builds
RECURSIVE RouteLoop(_, _, _, _, _)
RouteLoop(rules, i, message, target_topics, matched_rules) ==
    IF i > Len(rules) THEN [target_topics |-> target_topics, matched_rules |-> matched_rules]
    ELSE IF ~rules[i].active
         THEN RouteLoop(rules, i + 1, message, target_topics, matched_rules)
         ELSE IF EvaluateRule(message, rules[i])
              THEN RouteLoop(rules, i + 1, message,
                             target_topics \cup SeqToSet(rules[i].target_topics),
                             Append(matched_rules, rules[i].rule_id))
              ELSE RouteLoop(rules, i + 1, message, target_topics, matched_rules)

\* the target set and matched rules route_message computes
RouteTargets(rules, message) == RouteLoop(rules, 1, message, {}, <<>>)

TrimHistoryKeepOldest(h) ==
    IF Len(h) > MaxHistorySize THEN SubSeq(h, 1, MaxHistorySize) ELSE h

\* `if len(h) > max: h = h[-max:]`
TrimHistory(h) ==
    IF Len(h) > MaxHistorySize
    THEN SubSeq(h, Len(h) - MaxHistorySize + 1, Len(h))
    ELSE h

otherThanRouter == <<subsVars, fltVars, errVars, convVars, tvVars, agentVars,
    loopVars, dlyVars, tmVars, mbVars>>

RouterInit ==
    /\ routing_rules = <<>>
    /\ route_history = <<>>
    /\ router_ret = [op |-> "init"]

\* self.routing_rules.append(rule) for a new RoutingRule object.  The objects
\* in the list carry, in `added`, their rank in the order they were appended
\* (a history of the list that no field of RoutingRule holds)
AppendRule(rules, rule) ==
    Append([i \in DOMAIN rules |->
               [rules[i] EXCEPT !.added =
                   Cardinality({j \in DOMAIN rules : rules[j].added <= rules[i].added})]],
           rule @@ [added |-> Len(rules) + 1])

\* add_routing_rule
AddRoutingRule ==
    \E r \in RuleInputs :
        /\ Len(routing_rules) < MaxRules
        /\ routing_rules' = SortByPriorityDesc(AppendRule(routing_rules, r))
        /\ router_ret' = [op |-> "add_routing_rule"]
        /\ UNCHANGED <<route_history, otherThanRouter>>

FirstWithId(rules, id) ==
    IF \E i \in 1..Len(rules) : rules[i].rule_id = id
    THEN CHOOSE i \in 1..Len(rules) :
            rules[i].rule_id = id /\ \A j \in 1..(i - 1) : rules[j].rule_id # id
    ELSE 0

DeleteAt(s, i) == SubSeq(s, 1, i - 1) \o SubSeq(s, i + 1, Len(s))

\* remove_routing_rule
RemoveRoutingRule ==
    \E id \in RuleIds :
        LET i == FirstWithId(routing_rules, id) IN
        /\ routing_rules' = IF i = 0 THEN routing_rules ELSE DeleteAt(routing_rules, i)
        /\ router_ret' = [op |-> "remove_routing_rule", rule_id |-> id, ret |-> (i # 0)]
        /\ UNCHANGED <<route_history, otherThanRouter>>

\* update_rule(rule_id, priority=p): the attribute is set, then the list is
\* sorted again
UpdateRulePriority ==
    \E id \in RuleIds, p \in RulePriorities :
        LET i == FirstWithId(routing_rules, id) IN
        /\ routing_rules' =
              IF i = 0 THEN routing_rules
              ELSE SortByPriorityDesc([routing_rules EXCEPT ![i].priority = p])
        /\ router_ret' = [op |-> "update_rule", ret |-> (i # 0)]
        /\ UNCHANGED <<route_history, otherThanRouter>>

\* update_rule(rule_id, active=b), as enable_rule and disable_rule call it
SetRuleActive(id, b, op) ==
    LET i == FirstWithId(routing_rules, id) IN
    /\ routing_rules' =
          IF i = 0 THEN routing_rules ELSE [routing_rules EXCEPT ![i].active = b]
    /\ router_ret' = [op |-> op, ret |-> (i # 0)]

\* enable_rule
EnableRule ==
    \E id \in RuleIds :
        /\ SetRuleActive(id, TRUE, "enable_rule")
        /\ UNCHANGED <<route_history, otherThanRouter>>

\* disable_rule
DisableRule ==
    \E id \in RuleIds :
        /\ SetRuleActive(id, FALSE, "disable_rule")
        /\ UNCHANGED <<route_history, otherThanRouter>>

\* class RoutingRuleType
RoutingRuleTypes ==
    {"content_keyword", "content_regex", "sender_role", "message_type", "priority",
     "metadata", "custom"}

\* the lists of rule dicts import_rules is called with; RoutingRuleType(...)
\* of a string that names no member raises ValueError
ImportInputs ==
    { << Rule("r2", "priority", "prio_high", <<"ops", "alerts">>, 1, TRUE) >>,
      << Rule("r4", "bogus", "prio_high", <<"ops">>, 1, TRUE),
         Rule("r1", "message_type", "type_task", <<"tasks", "work">>, 0, TRUE) >>,
      << Rule("r3", "custom", "fn_raises", <<"tasks">>, 0, FALSE),
         Rule("r3", "content_keyword", "kw_urgent_important", <<"alerts">>, 1, TRUE) >> }

\* the for loop of import_rules over rules[i..]: a dict that makes
\* RoutingRule(...) raise is logged and skipped
RECURSIVE ImportLoop(_, _, _)
ImportLoop(dicts, i, rules) ==
    IF i > Len(dicts) THEN rules
    ELSE IF dicts[i].rule_type \notin RoutingRuleTypes
         THEN ImportLoop(dicts, i + 1, rules)
         ELSE ImportLoop(dicts, i + 1, AppendRule(rules, dicts[i]))

\* import_rules
ImportRules ==
    \E dicts \in ImportInputs :
        LET rules == ImportLoop(dicts, 1, routing_rules) IN
        /\ Len(rules) <= MaxRules
        /\ routing_rules' = SortByPriorityDesc(rules)
        /\ router_ret' = [op |-> "import_rules",
                          ret |-> Len(rules) - Len(routing_rules)]
        /\ UNCHANGED <<route_history, otherThanRouter>>

\* get_rule_by_id: the first rule with the id, or None (an Optional)
GetRuleById(rules, id) ==
    LET i == FirstWithId(rules, id) IN
    IF i = 0 THEN <<>> ELSE <<rules[i]>>

\* MessageRouter.route_message
RouterRouteMessage ==
    \E message \in RouterMessages :
        LET r == RouteTargets(routing_rules, message) IN
        /\ route_history' =
              TrimHistory(Append(route_history,
                  [message |-> message.id,
                   target_topics |-> ListOfSet(r.target_topics),
                   routing_rules |-> r.matched_rules,
                   timestamp |-> message.timestamp]))
        /\ router_ret' = [op |-> "route_message", message |-> message,
                          ret |-> ListOfSet(r.target_topics)]
        /\ UNCHANGED <<routing_rules, otherThanRouter>>

\* MessageRouter.clear_history
RouterClearHistory ==
    /\ route_history # <<>>
    /\ route_history' = <<>>
    /\ router_ret' = [op |-> "clear_history"]
    /\ UNCHANGED <<routing_rules, otherThanRouter>>

RouterNext ==
    \/ AddRoutingRule
    \/ EnableRule
    \/ DisableRule
    \/ RouterRouteMessage
    \/ RouterClearHistory

\* the rule list on its own: every operation that changes it
RulesNext ==
    \/ AddRoutingRule
    \/ RemoveRoutingRule
    \/ UpdateRulePriority
    \/ EnableRule
    \/ DisableRule
    \/ ImportRules

(***************************************************************************)
(* SubscriptionFilter and SubscriptionManager._message_matches_filter      *)
(* (core/subscription_manager.py).  An Optional field is <<>> for None and *)
(* <<v>> for the value v.                                                  *)
(***************************************************************************)
NoneV == <<>>
Some(v) == <<v>>
IsNone(o) == Len(o) = 0

\* bool(x) of an Optional set / dict, list / str, and enum / callable
TruthySet(o) == ~IsNone(o) /\ o[1] # {}
TruthySeq(o) == ~IsNone(o) /\ o[1] # <<>>
TruthyAny(o) == ~IsNone(o)

Filter(mt, mp, kw, rx, asnd, bsnd, arole, brole, md, cf) ==
    [message_types |-> mt, min_priority |-> mp, content_keywords |-> kw,
     content_regex |-> rx, allowed_senders |-> asnd, blocked_senders |-> bsnd,
     allowed_roles |-> arole, blocked_roles |-> brole, metadata_filters |-> md,
     custom_filter |-> cf]

\* filter_criteria.custom_filter(message), for the callables of the model
CallCustom(fn, message) ==
    CASE fn = "true" -> Ok(TRUE)
      [] fn = "false" -> Ok(FALSE)
      [] OTHER -> Raised

\* _message_matches_filter, from the content-regex clause on
MatchesFromRegex(message, f) ==
    LET rx == IF TruthySeq(f.content_regex)
              THEN ReSearchIgnoreCase(f.content_regex[1], message.content)
              ELSE Ok(TRUE)
    IN
    IF rx.raised THEN Raised        \* re.error leaves the function
    ELSE IF ~rx.value THEN Ok(FALSE)
    ELSE IF TruthySet(f.allowed_senders) /\ message.sender_id \notin f.allowed_senders[1]
         THEN Ok(FALSE)
    ELSE IF TruthySet(f.blocked_senders) /\ message.sender_id \in f.blocked_senders[1]
         THEN Ok(FALSE)
    ELSE IF TruthySet(f.allowed_roles) /\ message.sender_role \notin f.allowed_roles[1]
         THEN Ok(FALSE)
    ELSE IF TruthySet(f.blocked_roles) /\ message.sender_role \in f.blocked_roles[1]
         THEN Ok(FALSE)
    ELSE IF TruthySet(f.metadata_filters)
            /\ \E kv \in f.metadata_filters[1] :
                  ~MetaHas(message.metadata, kv[1])
                  \/ MetaGet(message.metadata, kv[1]) # kv[2]
         THEN Ok(FALSE)
    ELSE IF TruthyAny(f.custom_filter)
         THEN LET r == CallCustom(f.custom_filter[1], message) IN
              IF r.raised THEN Ok(FALSE) ELSE r
    ELSE Ok(TRUE)

\* _message_matches_filter as it would be if the keyword test did not lower
\* the content
MessageMatchesFilterCaseSensitive(message, filter_criteria) ==
    IF IsNone(filter_criteria) THEN Ok(TRUE)
    ELSE
    LET f == filter_criteria[1] IN
    IF TruthySet(f.message_types) /\ message.message_type \notin f.message_types[1]
    THEN Ok(FALSE)
    ELSE IF TruthyAny(f.min_priority)
            /\ PriorityOrderGet(message.priority) < PriorityOrderGet(f.min_priority[1])
         THEN Ok(FALSE)
    ELSE IF TruthySeq(f.content_keywords)
            /\ ~\E i \in 1..Len(f.content_keywords[1]) :
                   StrIn(Lower(f.content_keywords[1][i]), message.content)
         THEN Ok(FALSE)
    ELSE MatchesFromRegex(message, f)

\* _message_matches_filter(message, filter_criteria); filter_criteria is
\* Optional
MessageMatchesFilter(message, filter_criteria) ==
    IF IsNone(filter_criteria) THEN Ok(TRUE)
    ELSE
    LET f == filter_criteria[1] IN
    IF TruthySet(f.message_types) /\ message.message_type \notin f.message_types[1]
    THEN Ok(FALSE)
    ELSE IF TruthyAny(f.min_priority)
            /\ PriorityOrderGet(message.priority) < PriorityOrderGet(f.min_priority[1])
         THEN Ok(FALSE)
    ELSE IF TruthySeq(f.content_keywords)
            /\ ~\E i \in 1..Len(f.content_keywords[1]) :
                   StrIn(Lower(f.content_keywords[1][i]), Lower(message.content))
         THEN Ok(FALSE)
    ELSE MatchesFromRegex(message, f)

\* the filters and messages _message_matches_filter is applied to
FilterMessages ==
    { Msg(1, "a1", "developer", "text", "urgent", S_ThisIsURGENT, "ops", {}, 0),
      Msg(2, "a2", "tester", "task", "normal", S_NewTask, "ops", {<<"env", "prod">>}, 1),
      Msg(3, "a1", "manager", "text", "low", S_routineUpdate, "ops", {<<"env", "dev">>}, 2),
      Msg(4, "a3", "tester", "task", "high", S_urgent, "ops", {<<"env", "prod">>}, 3) }

FilterInputs ==
    { Filter(mt, mp, kw, rx, asnd, bsnd, arole, brole, md, cf) :
        mt \in {NoneV, Some({}), Some({"task"}), Some({"text", "query"})},
        mp \in {NoneV, Some("normal"), Some("urgent")},
        kw \in {NoneV, Some(<<>>), Some(<<S_urgent, S_important>>)},
        rx \in {NoneV, Some(S_task), Some(S_badRegex)},
        asnd \in {NoneV, Some({"a1", "a3"})},
        bsnd \in {NoneV, Some({"a3"})},
        arole \in {NoneV, Some({"tester", "developer"})},
        brole \in {NoneV, Some({}), Some({"developer"})},
        md \in {NoneV, Some({<<"env", "prod">>})},
        cf \in {NoneV, Some("true"), Some("false"), Some("raises")} }

FilterArgs == {NoneV} \cup {Some(f) : f \in FilterInputs}

otherThanFilter == <<routerVars, subsVars, errVars, convVars, tvVars, agentVars,
    loopVars, dlyVars, tmVars, mbVars>>

FilterInit ==
    /\ flt_in = [drawn |-> FALSE]
    /\ flt_out = [done |-> FALSE]

\* a caller picks the message and the filter
DrawFilterInput ==
    /\ ~flt_in.drawn
    /\ \E message \in FilterMessages, filter \in FilterArgs :
          flt_in' = [drawn |-> TRUE, message |-> message, filter |-> filter]
    /\ UNCHANGED <<flt_out, otherThanFilter>>

\* _message_matches_filter applied to the drawn message and filter
ApplyFilter ==
    /\ flt_in.drawn
    /\ ~flt_out.done
    /\ flt_out' = [done |-> TRUE,
                   result |-> MessageMatchesFilter(flt_in.message, flt_in.filter)]
    /\ UNCHANGED <<flt_in, otherThanFilter>>

FilterNext ==
    \/ DrawFilterInput
    \/ ApplyFilter

(***************************************************************************)
(* SubscriptionManager (core/subscription_manager.py).  TopicSubscription  *)
(* objects are shared by the two indexes, so they live in sub_heap and the *)
(* indexes hold their identities.  A dict is a function on its keys.       *)
(***************************************************************************)
\* subscription objects ever created in a run
MaxSubs == 2
\* deliveries counted per subscription
MaxDeliveries == 1

Agents == {"a1", "a2"}
SubTopics == {"ops", "tasks"}

\* the filters agents subscribe with, by name
SubFilterVal(k) ==
    CASE k = "none" -> NoneV
      [] k = "keywords" ->
            Some(Filter(NoneV, NoneV, Some(<<S_urgent, S_important>>), NoneV,
                        NoneV, NoneV, NoneV, NoneV, NoneV, NoneV))

\* the subscribe calls agents make: agent, topic, filter
SubscribeInputs ==
    { <<"a1", "ops", "none">>, <<"a2", "ops", "keywords">>,
      <<"a2", "ops", "none">>, <<"a1", "tasks", "none">> }

SubscriptionTypeOf(k) ==
    CASE k = "none" -> "all_messages"
      [] k = "keywords" -> "content_filtered"

SubsMessages ==
    { Msg(1, "a1", "developer", "text", "urgent", S_ThisIsURGENT, "ops", {}, 1),
      Msg(2, "a3", "tester", "task", "normal", S_routineUpdate, "ops", {}, 2) }

DictHas(d, k) == k \in DOMAIN d
DictGet(d, k, default) == IF k \in DOMAIN d THEN d[k] ELSE default
DictSet(d, k, v) == [x \in (DOMAIN d) \cup {k} |-> IF x = k THEN v ELSE d[x]]
DictDel(d, k) == [x \in (DOMAIN d) \ {k} |-> d[x]]

RECURSIVE FilterSeq(_, _)
\* [x for x in s if x in keep]
FilterSeq(s, keep) ==
    IF s = <<>> THEN <<>>
    ELSE IF Head(s) \in keep THEN <<Head(s)>> \o FilterSeq(Tail(s), keep)
         ELSE FilterSeq(Tail(s), keep)

otherThanSubs == <<routerVars, fltVars, errVars, convVars, tvVars, agentVars,
    loopVars, dlyVars, tmVars, mbVars>>

SubsInit ==
    /\ sub_heap = <<>>
    /\ subscriptions = <<>>
    /\ agent_subscriptions = <<>>
    /\ subs_ret = [op |-> "init"]

\* subscribe_agent_to_topic
SubscribeAgentToTopic ==
    \E in \in SubscribeInputs :
        LET agent_id == in[1]
            topic == in[2]
            k == in[3]
            id == Len(sub_heap) + 1
            subscription ==
                [topic |-> topic, agent_id |-> agent_id,
                 subscription_type |-> SubscriptionTypeOf(k),
                 filter_criteria |-> k, active |-> TRUE,
                 message_count |-> 0, last_message_at |-> None]
        IN
        /\ Len(sub_heap) < MaxSubs
        /\ sub_heap' = Append(sub_heap, subscription)
        /\ subscriptions' =
              DictSet(subscriptions, topic, Append(DictGet(subscriptions, topic, <<>>), id))
        /\ agent_subscriptions' =
              DictSet(agent_subscriptions, agent_id,
                      Append(DictGet(agent_subscriptions, agent_id, <<>>), id))
        /\ subs_ret' = [op |-> "subscribe", ret |-> id]
        /\ UNCHANGED otherThanSubs

KeptInAgentIndexAlways(sub, topic) == TRUE

\* `if sub.topic != topic`, the filter unsubscribe_agent_from_topic applies
\* to self.agent_subscriptions[agent_id]
KeptInAgentIndex(sub, topic) == sub.topic # topic

\* unsubscribe_agent_from_topic
UnsubscribeAgentFromTopic ==
    \E agent_id \in Agents, topic \in SubTopics :
        LET keepT == {i \in 1..Len(sub_heap) :
                        ~(sub_heap[i].agent_id = agent_id /\ sub_heap[i].topic = topic)}
            keepA == {i \in 1..Len(sub_heap) : KeptInAgentIndex(sub_heap[i], topic)}
            leftT == FilterSeq(DictGet(subscriptions, topic, <<>>), keepT)
            leftA == FilterSeq(DictGet(agent_subscriptions, agent_id, <<>>), keepA)
        IN
        /\ subscriptions' =
              IF ~DictHas(subscriptions, topic) THEN subscriptions
              ELSE IF leftT = <<>> THEN DictDel(subscriptions, topic)
              ELSE DictSet(subscriptions, topic, leftT)
        /\ agent_subscriptions' =
              IF ~DictHas(agent_subscriptions, agent_id) THEN agent_subscriptions
              ELSE IF leftA = <<>> THEN DictDel(agent_subscriptions, agent_id)
              ELSE DictSet(agent_subscriptions, agent_id, leftA)
        /\ subs_ret' = [op |-> "unsubscribe", agent_id |-> agent_id, topic |-> topic,
                        ret |-> DictHas(subscriptions, topic)]
        /\ UNCHANGED <<sub_heap, otherThanSubs>>

\* SubscriptionManager.route_message as it would be without the check that
\* skips the sender's own subscriptions
RECURSIVE SubsRouteLoopNoSenderCheck(_, _, _, _, _)
SubsRouteLoopNoSenderCheck(subs, i, message, heap, matching) ==
    IF i > Len(subs) THEN [heap |-> heap, matching |-> matching, raised |-> FALSE]
    ELSE
    LET id == subs[i]
        subscription == heap[id]
    IN
    IF ~subscription.active
    THEN SubsRouteLoopNoSenderCheck(subs, i + 1, message, heap, matching)
    ELSE
    LET m == MessageMatchesFilter(message, SubFilterVal(subscription.filter_criteria)) IN
    IF m.raised THEN [heap |-> heap, matching |-> matching, raised |-> TRUE]
    ELSE IF m.value
    THEN SubsRouteLoopNoSenderCheck(subs, i + 1, message,
                       [heap EXCEPT ![id].message_count = @ + 1,
                                    ![id].last_message_at = message.timestamp],
                       Append(matching, id))
    ELSE SubsRouteLoopNoSenderCheck(subs, i + 1, message, heap, matching)

\* the for loop of SubscriptionManager.route_message over subs[i..]: the
\* objects as it leaves them, the list it builds, and whether a filter's
\* exception ended it
RECURSIVE SubsRouteLoop(_, _, _, _, _)
SubsRouteLoop(subs, i, message, heap, matching) ==
    IF i > Len(subs) THEN [heap |-> heap, matching |-> matching, raised |-> FALSE]
    ELSE
    LET id == subs[i]
        subscription == heap[id]
    IN
    IF ~subscription.active
    THEN SubsRouteLoop(subs, i + 1, message, heap, matching)
    ELSE IF subscription.agent_id = message.sender_id
    THEN SubsRouteLoop(subs, i + 1, message, heap, matching)
    ELSE
    LET m == MessageMatchesFilter(message, SubFilterVal(subscription.filter_criteria)) IN
    IF m.raised THEN [heap |-> heap, matching |-> matching, raised |-> TRUE]
    ELSE IF m.value
    THEN SubsRouteLoop(subs, i + 1, message,
                       [heap EXCEPT ![id].message_count = @ + 1,
                                    ![id].last_message_at = message.timestamp],
                       Append(matching, id))
    ELSE SubsRouteLoop(subs, i + 1, message, heap, matching)

\* SubscriptionManager.route_message
SubsRouteMessage ==
    \E message \in SubsMessages :
        LET r == IF ~DictHas(subscriptions, message.topic)
                 THEN [heap |-> sub_heap, matching |-> <<>>, raised |-> FALSE]
                 ELSE SubsRouteLoop(subscriptions[message.topic], 1, message,
                                    sub_heap, <<>>)
        IN
        /\ \A i \in SeqToSet(DictGet(subscriptions, message.topic, <<>>)) :
              sub_heap[i].message_count < MaxDeliveries
        /\ sub_heap' = r.heap
        /\ subs_ret' = [op |-> "route_message", message |-> message,
                        raised |-> r.raised,
                        ret |-> IF r.raised THEN <<>> ELSE r.matching]
        /\ UNCHANGED <<subscriptions, agent_subscriptions, otherThanSubs>>

\* the first subscription of agent_id on topic in agent_subscriptions, or 0
FirstSubOf(agent_id, topic) ==
    LET subs == DictGet(agent_subscriptions, agent_id, <<>>) IN
    IF \E i \in 1..Len(subs) : sub_heap[subs[i]].topic = topic
    THEN subs[CHOOSE i \in 1..Len(subs) :
                /\ sub_heap[subs[i]].topic = topic
                /\ \A j \in 1..(i - 1) : sub_heap[subs[j]].topic # topic]
    ELSE 0

\* pause_subscription
PauseSubscription ==
    \E agent_id \in Agents, topic \in SubTopics :
        LET id == FirstSubOf(agent_id, topic) IN
        /\ sub_heap' = IF id = 0 THEN sub_heap
                       ELSE [sub_heap EXCEPT ![id].active = FALSE]
        /\ subs_ret' = [op |-> "pause_subscription", agent_id |-> agent_id,
                        topic |-> topic, ret |-> (id # 0)]
        /\ UNCHANGED <<subscriptions, agent_subscriptions, otherThanSubs>>

\* resume_subscription
ResumeSubscription ==
    \E agent_id \in Agents, topic \in SubTopics :
        LET id == FirstSubOf(agent_id, topic) IN
        /\ sub_heap' = IF id = 0 THEN sub_heap
                       ELSE [sub_heap EXCEPT ![id].active = TRUE]
        /\ subs_ret' = [op |-> "resume_subscription", agent_id |-> agent_id,
                        topic |-> topic, ret |-> (id # 0)]
        /\ UNCHANGED <<subscriptions, agent_subscriptions, otherThanSubs>>

\* update_subscription_filter(agent_id, topic, new_filter)
UpdateSubscriptionFilter ==
    \E agent_id \in Agents, topic \in SubTopics, new_filter \in {"keywords"} :
        LET id == FirstSubOf(agent_id, topic) IN
        /\ sub_heap' = IF id = 0 THEN sub_heap
                       ELSE [sub_heap EXCEPT ![id].filter_criteria = new_filter]
        /\ subs_ret' = [op |-> "update_subscription_filter", agent_id |-> agent_id,
                        topic |-> topic, ret |-> (id # 0)]
        /\ UNCHANGED <<subscriptions, agent_subscriptions, otherThanSubs>>

\* the calls that change the registry or its records
IndexNext ==
    \/ SubscribeAgentToTopic
    \/ UnsubscribeAgentFromTopic
    \/ PauseSubscription
    \/ ResumeSubscription
    \/ UpdateSubscriptionFilter

SubsNext ==
    \/ SubscribeAgentToTopic
    \/ UnsubscribeAgentFromTopic
    \/ SubsRouteMessage
    \/ PauseSubscription
    \/ ResumeSubscription

(***************************************************************************)
(* ErrorHandler and MessageErrorHandler (core/error_handler.py).  An       *)
(* exception is its type name and its message; delays are in              *)
(* milliseconds.  ErrorContext objects are mutated after they are put in   *)
(* error_history, so they live in error_ctx and the history holds their    *)
(* identities.                                                             *)
(***************************************************************************)
S_timeout == <<"t","i","m","e","o","u","t">>
S_network == <<"n","e","t","w","o","r","k">>
S_connection == <<"c","o","n","n","e","c","t","i","o","n">>
S_kafka == <<"k","a","f","k","a">>
S_redpanda == <<"r","e","d","p","a","n","d","a">>
S_openai == <<"o","p","e","n","a","i">>
S_anthropic == <<"a","n","t","h","r","o","p","i","c">>
S_llm == <<"l","l","m">>
S_validation == <<"v","a","l","i","d","a","t","i","o","n">>
S_invalid == <<"i","n","v","a","l","i","d">>
S_permission == <<"p","e","r","m","i","s","s","i","o","n">>
S_unauthorized == <<"u","n","a","u","t","h","o","r","i","z","e","d">>

Err(name, message) == [name |-> name, message |-> message]

E_ConnectionError ==
    Err(<<"C","o","n","n","e","c","t","i","o","n","E","r","r","o","r">>,
        <<"C","o","n","n","e","c","t","i","o","n"," ","f","a","i","l","e","d">>)
E_TimeoutError ==
    Err(<<"T","i","m","e","o","u","t","E","r","r","o","r">>,
        <<"O","p","e","r","a","t","i","o","n"," ","t","i","m","e","d"," ","o","u","t">>)
E_KafkaError ==
    Err(<<"K","a","f","k","a","E","r","r","o","r">>,
        <<"b","r","o","k","e","r"," ","g","o","n","e">>)
E_ValueError ==
    Err(<<"V","a","l","u","e","E","r","r","o","r">>,
        <<"I","n","v","a","l","i","d"," ","i","n","p","u","t">>)
E_PermissionError ==
    Err(<<"P","e","r","m","i","s","s","i","o","n","E","r","r","o","r">>,
        <<"d","e","n","i","e","d">>)
E_RuntimeError ==
    Err(<<"R","u","n","t","i","m","e","E","r","r","o","r">>,
        <<"b","o","o","m">>)

\* the exceptions handed to the handler and raised by retried operations
ErrorInputs == {E_ConnectionError, E_TimeoutError, E_KafkaError, E_ValueError, E_PermissionError, E_RuntimeError}

\* class ErrorType
ErrorTypes ==
    {"network_error", "timeout_error", "validation_error", "permission_error",
     "llm_provider_error", "message_broker_error", "agent_error", "unknown_error"}

\* _classify_error
ClassifyError(error) ==
    LET error_name == Lower(error.name)
        error_message == Lower(error.message)
    IN
    IF StrIn(S_timeout, error_name) \/ StrIn(S_timeout, error_message)
    THEN "timeout_error"
    ELSE IF StrIn(S_network, error_name) \/ StrIn(S_connection, error_message)
    THEN "network_error"
    ELSE IF StrIn(S_kafka, error_name) \/ StrIn(S_redpanda, error_message)
    THEN "message_broker_error"
    ELSE IF StrIn(S_openai, error_name) \/ StrIn(S_anthropic, error_name)
            \/ StrIn(S_llm, error_message)
    THEN "llm_provider_error"
    ELSE IF StrIn(S_validation, error_name) \/ StrIn(S_invalid, error_message)
    THEN "validation_error"
    ELSE IF StrIn(S_permission, error_name) \/ StrIn(S_unauthorized, error_message)
    THEN "permission_error"
    ELSE "unknown_error"

\* the defaults of class RetryConfig
DefaultMaxRetries == 3
DefaultBaseDelay == 1000
DefaultMaxDelay == 60000
DefaultBackoffMultiplier == 2

\* a retryable set as it would be if validation errors had been put in it
RetryableErrorsWithValidation ==
    {"network_error", "timeout_error", "message_broker_error", "validation_error"}

\* the default_factory of RetryConfig.retryable_errors
DefaultRetryableErrors == {"network_error", "timeout_error", "message_broker_error"}

RetryConfig(max_retries, base_delay, max_delay, backoff_multiplier, strategy) ==
    [max_retries |-> max_retries, base_delay |-> base_delay, max_delay |-> max_delay,
     backoff_multiplier |-> backoff_multiplier, strategy |-> strategy,
     retryable_errors |-> DefaultRetryableErrors]

\* the configurations update_retry_config is called with: RetryConfig(),
\* one with a linear backoff that reaches its cap, and one that allows no
\* retry
RetryConfigs ==
    { RetryConfig(DefaultMaxRetries, DefaultBaseDelay, DefaultMaxDelay,
                  DefaultBackoffMultiplier, "exponential_backoff"),
      RetryConfig(2, DefaultBaseDelay, 1500, DefaultBackoffMultiplier, "linear_backoff"),
      RetryConfig(0, DefaultBaseDelay, DefaultMaxDelay, DefaultBackoffMultiplier,
                  "fixed_delay") }

RECURSIVE Pow(_, _)
Pow(b, n) == IF n = 0 THEN 1 ELSE b * Pow(b, n - 1)

Min(a, b) == IF a <= b THEN a ELSE b

\* the readings of asyncio.get_event_loop().time() % 1 drawn, in tenths
LoopTimeFractions == {9}

\* the `delay` of _calculate_delay(attempt) before the jitter is added, and
\* what the immediate and fixed strategies return at once
DelayBeforeJitter(config, attempt) ==
    IF config.strategy = "immediate" THEN 0
    ELSE IF config.strategy = "fixed_delay" THEN config.base_delay
    ELSE IF config.strategy = "linear_backoff"
    THEN config.base_delay * (attempt + 1)
    ELSE IF config.strategy = "exponential_backoff"
    THEN config.base_delay * Pow(config.backoff_multiplier, attempt)
    ELSE config.base_delay

\* _calculate_delay(attempt), the loop's clock reading frac tenths past the
\* second
CalculateDelay(config, attempt, frac) ==
    IF config.strategy \in {"immediate", "fixed_delay"}
    THEN DelayBeforeJitter(config, attempt)
    ELSE
    LET delay == DelayBeforeJitter(config, attempt)
        jitter == (delay * (5 - frac)) \div 100
    IN Min(delay + jitter, config.max_delay)

\* the configurations, attempts and clock readings _calculate_delay is
\* applied to
RetryStrategies == {"immediate", "exponential_backoff", "linear_backoff", "fixed_delay"}
DelayConfigs ==
    { RetryConfig(DefaultMaxRetries, base_delay, max_delay, backoff_multiplier, strategy) :
        base_delay \in {DefaultBaseDelay, 2000},
        max_delay \in {1500, DefaultMaxDelay},
        backoff_multiplier \in {DefaultBackoffMultiplier, 3},
        strategy \in RetryStrategies }
DelayAttempts == 0..(DefaultMaxRetries - 1)
DelayFractions == {0, 5, 9}

otherThanDelay ==
    <<routerVars, subsVars, fltVars, errVars, convVars, tvVars, agentVars, loopVars,
      tmVars, mbVars>>

DelayInit ==
    /\ dly_in = [drawn |-> FALSE]
    /\ dly_out = [done |-> FALSE]

\* a caller picks the configuration and the attempt; the clock reads frac
DrawDelayInput ==
    /\ ~dly_in.drawn
    /\ \E config \in DelayConfigs, attempt \in DelayAttempts, frac \in DelayFractions :
          dly_in' = [drawn |-> TRUE, config |-> config, attempt |-> attempt,
                     frac |-> frac]
    /\ UNCHANGED <<dly_out, otherThanDelay>>

\* _calculate_delay applied to the drawn input
ApplyDelay ==
    /\ dly_in.drawn
    /\ ~dly_out.done
    /\ dly_out' = [done |-> TRUE,
                   before_jitter |-> DelayBeforeJitter(dly_in.config, dly_in.attempt),
                   delay |-> CalculateDelay(dly_in.config, dly_in.attempt, dly_in.frac)]
    /\ UNCHANGED <<dly_in, otherThanDelay>>

DelayNext ==
    \/ DrawDelayInput
    \/ ApplyDelay

\* ErrorContext objects created in a run
MaxErrors == 2
\* self.max_history_size of ErrorHandler, 1000 in the source, scaled down so
\* that the trimming is reached
ErrMaxHistorySize == 3

\* the operations handed to handle_error as retry_func, None included
RetryFuncs == {None, "always_network", "timeout_then_ok", "returns_none"}

\* what the k-th call of retry_func does: raise, or return a value
FuncOutcome(func, k) ==
    CASE func = "always_network" -> [raised |-> TRUE, error |-> E_ConnectionError, value |-> None]
      [] func = "timeout_then_ok" ->
            IF k = 1 THEN [raised |-> TRUE, error |-> E_TimeoutError, value |-> None]
            ELSE [raised |-> FALSE, error |-> None, value |-> "result"]
      [] func = "returns_none" -> [raised |-> FALSE, error |-> None, value |-> None]

ErrorContext(error_type, error_message, agent_id, topic, message_id) ==
    [error_type |-> error_type, error_message |-> error_message,
     agent_id |-> agent_id, topic |-> topic, message_id |-> message_id,
     retry_count |-> 0]

\* _record_error: the object is appended, and the list cut to its last
\* max_history_size entries
RecordError(history, ctx) ==
    LET h == Append(history, ctx) IN
    IF Len(h) > ErrMaxHistorySize
    THEN SubSeq(h, Len(h) - ErrMaxHistorySize + 1, Len(h))
    ELSE h

\* the number of turns as it would be with range(max_retries + 1)
LoopBoundInclusive(config) == config.max_retries + 1

\* the number of turns of `for attempt in range(self.retry_config.max_retries)`
LoopBound(config) == config.max_retries

\* the last-attempt test as it would be if it were off by one
IsLastAttemptEarly(config, attempt) == attempt = config.max_retries - 2

\* `if attempt == self.retry_config.max_retries - 1`
IsLastAttempt(config, attempt) == attempt = config.max_retries - 1

IdleTask == [pc |-> "idle"]

otherThanErr == <<routerVars, subsVars, fltVars, convVars, tvVars, agentVars,
    loopVars, dlyVars, tmVars, mbVars>>

ErrInit ==
    /\ error_ctx = <<>>
    /\ error_history = <<>>
    /\ retry_history = <<>>
    /\ retry_config = RetryConfig(DefaultMaxRetries, DefaultBaseDelay, DefaultMaxDelay,
                                  DefaultBackoffMultiplier, "exponential_backoff")
    /\ eh_task = IdleTask
    /\ eh_ret = [op |-> "init"]

\* what a handle_error call gives its caller when it ends (ret), with what
\* the call did: the ErrorContext it made, how often it invoked retry_func,
\* and how long retry_history was when it began
HandleErrorReturn(task, ret) ==
    [op |-> "handle_error", error |-> task.error, func |-> task.func,
     ctx |-> task.ctx, invoked |-> task.invoked, attempts_before |-> task.ra0,
     ret |-> ret]

\* handle_error, up to its return or to the first await of _retry_operation
HandleError ==
    \E error \in ErrorInputs, retry_func \in RetryFuncs :
        LET error_type == ClassifyError(error)
            ctx == Len(error_ctx) + 1
            task == [pc |-> "attempt", error |-> error, func |-> retry_func,
                     ctx |-> ctx, attempt |-> 0, invoked |-> 0, ra |-> 0,
                     ra0 |-> Len(retry_history)]
        IN
        /\ eh_task.pc = "idle"
        /\ Len(error_ctx) < MaxErrors
        /\ error_ctx' = Append(error_ctx,
                               ErrorContext(error_type, error.message, None, None, None))
        /\ error_history' = RecordError(error_history, ctx)
        /\ IF error_type \in retry_config.retryable_errors /\ retry_func # None
           THEN /\ eh_task' = task
                /\ UNCHANGED eh_ret
           ELSE /\ eh_task' = IdleTask
                /\ eh_ret' = HandleErrorReturn(task, None)
        /\ UNCHANGED <<retry_history, retry_config, otherThanErr>>

\* _retry_operation, the head of a turn of the loop: the delay is computed
\* and the RetryAttempt appended; from the second attempt on the task sleeps
RetryBegin ==
    \E frac \in LoopTimeFractions :
        LET attempt == eh_task.attempt
            delay == CalculateDelay(retry_config, attempt, frac)
        IN
        /\ eh_task.pc = "attempt"
        /\ IF attempt >= LoopBound(retry_config)
           THEN \* the loop is over: `return None`
                /\ eh_task' = IdleTask
                /\ eh_ret' = HandleErrorReturn(eh_task, None)
                /\ UNCHANGED retry_history
           ELSE /\ retry_history' =
                      Append(retry_history,
                             [attempt_number |-> attempt + 1, delay |-> delay,
                              error |-> None, success |-> FALSE])
                /\ eh_task' = [eh_task EXCEPT
                                  !.ra = Len(retry_history) + 1,
                                  !.pc = IF attempt > 0 THEN "sleep" ELSE "call"]
                /\ UNCHANGED eh_ret
        /\ UNCHANGED <<error_ctx, error_history, retry_config, otherThanErr>>

\* `await asyncio.sleep(delay)` returns
RetrySleepDone ==
    /\ eh_task.pc = "sleep"
    /\ eh_task' = [eh_task EXCEPT !.pc = "call"]
    /\ UNCHANGED <<error_ctx, error_history, retry_history, retry_config, eh_ret,
                   otherThanErr>>

\* `result = await retry_func()` and the rest of the turn
RetryInvoke ==
    LET attempt == eh_task.attempt
        invoked == eh_task.invoked + 1
        out == FuncOutcome(eh_task.func, invoked)
        task == [eh_task EXCEPT !.invoked = invoked]
    IN
    /\ eh_task.pc = "call"
    /\ IF ~out.raised
       THEN /\ retry_history' = [retry_history EXCEPT ![eh_task.ra].success = TRUE]
            /\ eh_task' = IdleTask
            /\ eh_ret' = HandleErrorReturn(task, out.value)
            /\ UNCHANGED <<error_ctx, error_history>>
       ELSE /\ retry_history' = [retry_history EXCEPT ![eh_task.ra].error = out.error]
            /\ IF IsLastAttempt(retry_config, attempt)
               THEN /\ error_ctx' = [error_ctx EXCEPT ![eh_task.ctx].retry_count = attempt + 1]
                    /\ eh_task' = IdleTask
                    /\ eh_ret' = HandleErrorReturn(task, None)
                    /\ UNCHANGED error_history
               ELSE /\ error_ctx' = [error_ctx EXCEPT
                                        ![eh_task.ctx].retry_count = attempt + 1,
                                        ![eh_task.ctx].error_message = out.error.message]
                    /\ error_history' = RecordError(error_history, eh_task.ctx)
                    /\ eh_task' = [task EXCEPT !.attempt = attempt + 1, !.pc = "attempt"]
                    /\ UNCHANGED eh_ret
    /\ UNCHANGED <<retry_config, otherThanErr>>

\* the exception classes that derive from BaseException and not from
\* Exception; asyncio.CancelledError has been one of them since Python 3.8
OutsideException == {"CancelledError", "KeyboardInterrupt", "SystemExit", "GeneratorExit"}

CaughtByExceptExceptionAll(exc) == TRUE

\* whether `except Exception` catches an exception of the class exc
CaughtByExceptException(exc) == exc \notin OutsideException

\* task.cancel() on the task that runs handle_error while it waits in
\* `await asyncio.sleep(delay)`: CancelledError is raised at the await
RetryCancel ==
    LET attempt == eh_task.attempt
        e == Err(<<"C","a","n","c","e","l","l","e","d","E","r","r","o","r">>, <<>>)
    IN
    /\ eh_task.pc = "sleep"
    /\ IF ~CaughtByExceptException("CancelledError")
       THEN \* the exception leaves _retry_operation and handle_error
            /\ eh_task' = IdleTask
            /\ eh_ret' = [op |-> "handle_error cancelled", raised |-> "CancelledError",
                          ctx |-> eh_task.ctx, invoked |-> eh_task.invoked]
            /\ UNCHANGED <<error_ctx, error_history, retry_history>>
       ELSE /\ retry_history' = [retry_history EXCEPT ![eh_task.ra].error = e]
            /\ IF IsLastAttempt(retry_config, attempt)
               THEN /\ error_ctx' = [error_ctx EXCEPT ![eh_task.ctx].retry_count = attempt + 1]
                    /\ eh_task' = IdleTask
                    /\ eh_ret' = HandleErrorReturn(eh_task, None)
                    /\ UNCHANGED error_history
               ELSE /\ error_ctx' = [error_ctx EXCEPT
                                        ![eh_task.ctx].retry_count = attempt + 1,
                                        ![eh_task.ctx].error_message = e.message]
                    /\ error_history' = RecordError(error_history, eh_task.ctx)
                    /\ eh_task' = [eh_task EXCEPT !.attempt = attempt + 1,
                                                  !.pc = "attempt"]
                    /\ UNCHANGED eh_ret
    /\ UNCHANGED <<retry_config, otherThanErr>>

\* is_error_retryable, awaited
IsErrorRetryable(error) == ClassifyError(error) \in retry_config.retryable_errors

\* `await error_handler.is_error_retryable(error)`
CheckErrorRetryable ==
    \E error \in ErrorInputs :
        /\ eh_task.pc = "idle"
        /\ eh_ret' = [op |-> "is_error_retryable", error |-> error,
                      ret |-> IsErrorRetryable(error)]
        /\ UNCHANGED <<error_ctx, error_history, retry_history, retry_config, eh_task,
                       otherThanErr>>

\* AgentMessage.is_expired at the time now; ttl is Optional
IsExpired(message, now) ==
    IF IsNone(message.ttl) THEN FALSE
    ELSE now - message.timestamp > message.ttl[1]

\* AgentMessage.should_retry at the time now
ShouldRetry(message, now) ==
    message.retry_count < message.max_retries /\ ~IsExpired(message, now)

\* bool() of the coroutine object a call of an `async def` gives when it is
\* not awaited: an object without __bool__ or __len__ is true
CoroutineTruth(awaited_value) == TRUE

\* the messages handle_message_error is called for: (retry_count,
\* max_retries, ttl), all created at time 0
ErrMsg(id, retry_count, ttl) ==
    [id |-> id, sender_id |-> "a1", topic |-> "ops", timestamp |-> 0,
     retry_count |-> retry_count, max_retries |-> 3, ttl |-> ttl]

ErrMessages ==
    { ErrMsg(1, 0, NoneV), ErrMsg(2, 3, NoneV), ErrMsg(3, 1, Some(0)) }

\* the times handle_message_error is called at
MaxClock == 1

\* MessageErrorHandler.handle_message_error
HandleMessageError ==
    \E error \in ErrorInputs, message \in ErrMessages, now \in 0..MaxClock :
        LET ctx == Len(error_ctx) + 1 IN
        /\ eh_task.pc = "idle"
        /\ Len(error_ctx) < MaxErrors
        /\ error_ctx' = Append(error_ctx,
                               ErrorContext(ClassifyError(error), error.message,
                                            message.sender_id, message.topic, message.id))
        /\ error_history' = RecordError(error_history, ctx)
        /\ eh_ret' = [op |-> "handle_message_error", error |-> error,
                      message |-> message, now |-> now,
                      ret |-> (ShouldRetry(message, now)
                                 /\ CoroutineTruth(IsErrorRetryable(error)))]
        /\ UNCHANGED <<retry_history, retry_config, eh_task, otherThanErr>>

\* update_retry_config
UpdateRetryConfig ==
    \E new_config \in RetryConfigs :
        /\ eh_task.pc = "idle"
        /\ new_config # retry_config
        /\ retry_config' = new_config
        /\ eh_ret' = [op |-> "update_retry_config"]
        /\ UNCHANGED <<error_ctx, error_history, retry_history, eh_task, otherThanErr>>

ErrNext ==
    \/ HandleError
    \/ RetryBegin
    \/ RetrySleepDone
    \/ RetryInvoke
    \/ RetryCancel
    \/ CheckErrorRetryable

\* handle_error with the configuration replaced between calls
RetryNext ==
    \/ HandleError
    \/ RetryBegin
    \/ RetrySleepDone
    \/ RetryInvoke
    \/ UpdateRetryConfig

\* the message-level handler on its own
MsgErrNext == HandleMessageError

(***************************************************************************)
(* ConversationManager (core/conversation_manager.py).  Thread ids (uuid4) *)
(* are numbered in the order they are made; time is a counter of ticks of  *)
(* 12 hours.  A thread's title is left out.                                *)
(***************************************************************************)
\* self.thread_timeout: timedelta(hours=24), in ticks of 12 hours
ThreadTimeout == 2
\* self.max_context_messages, 10 in the source, scaled down
MaxContextMessages == 2
\* how far the clock runs
MaxTime == 3
\* messages created in a run
MaxMessages == 3

\* the (sender, topic) pairs of the messages agents create
ConvSenders == { <<"a1", "ops">>, <<"a2", "tasks">> }

\* the timestamps of the messages handed over at the time now: made just
\* now, or made thread_timeout ago and delivered late
TimestampsAt(now) == {now} \cup {t \in {now - ThreadTimeout} : t >= 0}

\* a thread id the manager never issued
UnknownThread == 99

\* the manager's dicts as one record
ConvState ==
    [threads |-> threads, topic_threads |-> topic_threads,
     agent_threads |-> agent_threads, message_threads |-> message_threads,
     thread_messages |-> thread_messages,
     conversation_contexts |-> conversation_contexts]

\* create_thread(topic, initial_message) at the time now, on the dicts cm:
\* the dicts it leaves, and the id of the thread it made
CreateThreadOn(cm, topic, initial_message, now) ==
    LET thread_id == Cardinality(DOMAIN cm.threads) + 1
        thread == [thread_id |-> thread_id, topic |-> topic,
                   created_at |-> now, last_activity |-> now,
                   participants |-> {initial_message.sender_id},
                   message_count |-> 0, is_active |-> TRUE]
        context == [thread_id |-> thread_id, topic |-> topic,
                    recent_messages |-> <<initial_message.id>>,
                    participants |-> {initial_message.sender_id},
                    created_at |-> now, last_activity |-> now]
    IN
    [cm |-> [threads |-> DictSet(cm.threads, thread_id, thread),
             topic_threads |->
                 DictSet(cm.topic_threads, topic,
                         Append(DictGet(cm.topic_threads, topic, <<>>), thread_id)),
             agent_threads |->
                 DictSet(cm.agent_threads, initial_message.sender_id,
                         DictGet(cm.agent_threads, initial_message.sender_id, {})
                             \cup {thread_id}),
             message_threads |-> DictSet(cm.message_threads, initial_message.id, thread_id),
             thread_messages |-> DictSet(cm.thread_messages, thread_id, <<initial_message.id>>),
             conversation_contexts |-> DictSet(cm.conversation_contexts, thread_id, context)],
     thread_id |-> thread_id]

\* the loop of _find_or_create_thread over ids[i..]: the first thread that
\* is active and had activity less than thread_timeout ago, or 0
RECURSIVE FindThread(_, _, _, _)
FindThread(cm, ids, i, now) ==
    IF i > Len(ids) THEN 0
    ELSE IF /\ DictHas(cm.threads, ids[i])
            /\ cm.threads[ids[i]].is_active
            /\ now - cm.threads[ids[i]].last_activity < ThreadTimeout
         THEN ids[i]
         ELSE FindThread(cm, ids, i + 1, now)

\* _find_or_create_thread(message)
FindOrCreateThread(cm, message, now) ==
    LET found == IF DictHas(cm.topic_threads, message.topic)
                 THEN FindThread(cm, cm.topic_threads[message.topic], 1, now)
                 ELSE 0
    IN
    IF found # 0 THEN [cm |-> cm, thread_id |-> found]
    ELSE CreateThreadOn(cm, message.topic, message, now)

\* _update_conversation_context(thread_id, message)
UpdateConversationContext(contexts, thread_id, message) ==
    IF ~DictHas(contexts, thread_id) THEN contexts
    ELSE
    LET context == contexts[thread_id]
        recent == Append(context.recent_messages, message.id)
        kept == IF Len(recent) > MaxContextMessages
                THEN SubSeq(recent, Len(recent) - MaxContextMessages + 1, Len(recent))
                ELSE recent
    IN
    DictSet(contexts, thread_id,
            [context EXCEPT !.recent_messages = kept,
                            !.participants = @ \cup {message.sender_id},
                            !.last_activity = message.timestamp])

\* add_message_to_thread(message, thread_id) at the time now; thread_id is
\* Optional
AddMessageToThreadOn(cm0, message, thread_id_arg, now) ==
    LET fc == IF IsNone(thread_id_arg) THEN FindOrCreateThread(cm0, message, now)
              ELSE [cm |-> cm0, thread_id |-> thread_id_arg[1]]
        cm == fc.cm
        thread_id == fc.thread_id
        known == DictHas(cm.threads, thread_id)
    IN
    [cm |-> [threads |->
                 IF known
                 THEN DictSet(cm.threads, thread_id,
                              [cm.threads[thread_id] EXCEPT
                                  !.participants = @ \cup {message.sender_id},
                                  !.message_count = @ + 1,
                                  !.last_activity = message.timestamp])
                 ELSE cm.threads,
             topic_threads |-> cm.topic_threads,
             agent_threads |->
                 IF known
                 THEN DictSet(cm.agent_threads, message.sender_id,
                              DictGet(cm.agent_threads, message.sender_id, {})
                                  \cup {thread_id})
                 ELSE cm.agent_threads,
             message_threads |-> DictSet(cm.message_threads, message.id, thread_id),
             thread_messages |->
                 DictSet(cm.thread_messages, thread_id,
                         Append(DictGet(cm.thread_messages, thread_id, <<>>), message.id)),
             conversation_contexts |->
                 UpdateConversationContext(cm.conversation_contexts, thread_id, message)],
     thread_id |-> thread_id]

otherThanConv == <<routerVars, subsVars, fltVars, errVars, tvVars, agentVars,
    loopVars, dlyVars, tmVars, mbVars>>

ConvInit ==
    /\ threads = <<>>
    /\ topic_threads = <<>>
    /\ agent_threads = <<>>
    /\ message_threads = <<>>
    /\ thread_messages = <<>>
    /\ conversation_contexts = <<>>
    /\ conv_now = 0
    /\ conv_msgs = <<>>
    /\ conv_log = <<>>

\* the manager's dicts become those of cm
SetConvState(cm) ==
    /\ threads' = cm.threads
    /\ topic_threads' = cm.topic_threads
    /\ agent_threads' = cm.agent_threads
    /\ message_threads' = cm.message_threads
    /\ thread_messages' = cm.thread_messages
    /\ conversation_contexts' = cm.conversation_contexts

\* the create_thread and add_message_to_thread(message) calls made since
\* the last call of another kind, the last three of them
LogCall(entry) ==
    LET l == Append(conv_log, entry) IN
    IF Len(l) > 3 THEN SubSeq(l, Len(l) - 2, Len(l)) ELSE l

\* AgentMessage(sender_id=..., topic=..., timestamp=...): its id is new
NewMessage(sender_topic, timestamp) ==
    [id |-> Len(conv_msgs) + 1, sender_id |-> sender_topic[1],
     topic |-> sender_topic[2], timestamp |-> timestamp]

\* create_thread(topic, initial_message)
CreateThread ==
    \E st \in ConvSenders, ts \in TimestampsAt(conv_now) :
        LET message == NewMessage(st, ts)
            r == CreateThreadOn(ConvState, message.topic, message, conv_now)
        IN
        /\ Len(conv_msgs) < MaxMessages
        /\ conv_msgs' = Append(conv_msgs, message)
        /\ SetConvState(r.cm)
        /\ conv_log' = LogCall([op |-> "create_thread", topic |-> message.topic,
                                now |-> conv_now, timestamp |-> ts, ret |-> r.thread_id])
        /\ UNCHANGED <<conv_now, otherThanConv>>

\* add_message_to_thread(message)
AddMessageToThread ==
    \E st \in ConvSenders, ts \in TimestampsAt(conv_now) :
        LET message == NewMessage(st, ts)
            r == AddMessageToThreadOn(ConvState, message, NoneV, conv_now)
        IN
        /\ Len(conv_msgs) < MaxMessages
        /\ conv_msgs' = Append(conv_msgs, message)
        /\ SetConvState(r.cm)
        /\ conv_log' = LogCall([op |-> "add_message_to_thread", topic |-> message.topic,
                                now |-> conv_now, timestamp |-> ts, ret |-> r.thread_id])
        /\ UNCHANGED <<conv_now, otherThanConv>>

\* add_message_to_thread(message, thread_id)
AddMessageToGivenThread ==
    \E st \in ConvSenders, ts \in TimestampsAt(conv_now),
       thread_id \in (DOMAIN threads) \cup {UnknownThread} :
        LET message == NewMessage(st, ts)
            r == AddMessageToThreadOn(ConvState, message, Some(thread_id), conv_now)
        IN
        /\ Len(conv_msgs) < MaxMessages
        /\ conv_msgs' = Append(conv_msgs, message)
        /\ SetConvState(r.cm)
        /\ conv_log' = <<>>
        /\ UNCHANGED <<conv_now, otherThanConv>>

\* close_thread(thread_id, closed_by) of a thread that is open
CloseThread ==
    \E thread_id \in DOMAIN threads :
        /\ threads[thread_id].is_active
        /\ threads' = [threads EXCEPT ![thread_id].is_active = FALSE]
        /\ conv_log' = <<>>
        /\ UNCHANGED <<topic_threads, agent_threads, message_threads, thread_messages,
                       conversation_contexts, conv_now, conv_msgs, otherThanConv>>

\* time passes
ConvTick ==
    /\ conv_now < MaxTime
    /\ conv_now' = conv_now + 1
    /\ UNCHANGED <<threads, topic_threads, agent_threads, message_threads,
                   thread_messages, conversation_contexts, conv_msgs, conv_log,
                   otherThanConv>>

ConvNext ==
    \/ CreateThread
    \/ AddMessageToThread
    \/ AddMessageToGivenThread
    \/ ConvTick

ArchivableAtCutoff(thread, cutoff_time) ==
    thread.is_active /\ thread.last_activity <= cutoff_time

\* `if thread.is_active and thread.last_activity < cutoff_time` of
\* archive_old_threads
Archivable(thread, cutoff_time) ==
    thread.is_active /\ thread.last_activity < cutoff_time

\* the loop of archive_old_threads over self.threads.items(), from the i-th
\* thread on: the dict it leaves and what it adds to archived_count
RECURSIVE ArchiveLoop(_, _, _)
ArchiveLoop(ths, i, cutoff_time) ==
    IF i > Cardinality(DOMAIN ths) THEN [threads |-> ths, archived_count |-> 0]
    ELSE IF Archivable(ths[i], cutoff_time)
         THEN LET rest == ArchiveLoop([ths EXCEPT ![i].is_active = FALSE], i + 1,
                                      cutoff_time)
              IN [rest EXCEPT !.archived_count = @ + 1]
         ELSE ArchiveLoop(ths, i + 1, cutoff_time)

\* archive_old_threads()
ArchiveOldThreads ==
    LET cutoff_time == conv_now - ThreadTimeout
        r == ArchiveLoop(threads, 1, cutoff_time)
    IN
    /\ threads # <<>>
    /\ threads' = r.threads
    /\ conv_log' = <<[op |-> "archive_old_threads", now |-> conv_now,
                      ret |-> r.archived_count]>>
    /\ UNCHANGED <<topic_threads, agent_threads, message_threads, thread_messages,
                   conversation_contexts, conv_now, conv_msgs, otherThanConv>>

\* the manager with threads made by add_message_to_thread, closed and
\* archived
ArchiveNext ==
    \/ AddMessageToThread
    \/ ConvTick
    \/ CloseThread
    \/ ArchiveOldThreads

(***************************************************************************)
(* TopicValidator (core/topic_validator.py).                               *)
(***************************************************************************)
\* PermissionLevel
PermissionLevels == {"read", "write", "admin", "owner"}

\* level_hierarchy.get(level, 0)
LevelHierarchyGet(level) ==
    CASE level = "read"  -> 1
      [] level = "write" -> 2
      [] level = "admin" -> 3
      [] level = "owner" -> 4
      [] OTHER           -> 0

PermissionLevelSufficientStrict(current_level, required_level) ==
    LevelHierarchyGet(current_level) > LevelHierarchyGet(required_level)

\* _permission_level_sufficient(current_level, required_level)
PermissionLevelSufficient(current_level, required_level) ==
    LevelHierarchyGet(current_level) >= LevelHierarchyGet(required_level)

\* TopicPermission(agent_id, permission_level, granted_by, granted_at)
TopicPermission(agent_id, permission_level, granted_by) ==
    [agent_id |-> agent_id, permission_level |-> permission_level,
     granted_by |-> granted_by, granted_at |-> "now"]

\* the topics and agents of the permission calls
PermTopics == {"ops", "tasks"}
PermAgents == {"a1", "a2"}

\* the (topic, agent_id, permission_level, granted_by) of the grants made
GrantInputs ==
    { <<"ops", "a1", "read", "admin">>,  <<"ops", "a1", "write", "admin">>,
      <<"ops", "a1", "write", "a2">>,    <<"ops", "a2", "admin", "admin">>,
      <<"ops", "a2", "read", "admin">>,  <<"tasks", "a1", "owner", "a1">> }

FindPermissionNever(perms, agent_id) == 0

\* the loops `for perm in self.topic_permissions[topic]: if perm.agent_id ==
\* agent_id`: the index of the first record of the agent, or 0
FindPermission(perms, agent_id) ==
    IF \E i \in 1..Len(perms) : perms[i].agent_id = agent_id
    THEN CHOOSE i \in 1..Len(perms) :
            /\ perms[i].agent_id = agent_id
            /\ \A j \in 1..(i - 1) : perms[j].agent_id # agent_id
    ELSE 0

\* check_permission(topic, agent_id, required_permission) on the dict tp
CheckPermissionOn(tp, topic, agent_id, required_permission) ==
    IF ~DictHas(tp, topic) THEN FALSE
    ELSE LET i == FindPermission(tp[topic], agent_id) IN
         IF i # 0
         THEN PermissionLevelSufficient(tp[topic][i].permission_level,
                                        required_permission)
         ELSE FALSE

\* [perm for perm in perms if perm.agent_id != agent_id]
RECURSIVE WithoutAgent(_, _)
WithoutAgent(perms, agent_id) ==
    IF perms = <<>> THEN <<>>
    ELSE IF Head(perms).agent_id # agent_id
         THEN <<Head(perms)>> \o WithoutAgent(Tail(perms), agent_id)
         ELSE WithoutAgent(Tail(perms), agent_id)

otherThanPerm ==
    <<routerVars, subsVars, fltVars, errVars, convVars, tv_val, agentVars, loopVars,
      dlyVars, tmVars, mbVars>>

TopicValidatorInit ==
    /\ topic_permissions = <<>>
    /\ tv_ret = [op |-> None]
    /\ tv_val = [op |-> None]

\* grant_permission(topic, agent_id, permission_level, granted_by)
GrantPermission ==
    \E g \in GrantInputs :
        LET topic == g[1]
            agent_id == g[2]
            perms == DictGet(topic_permissions, topic, <<>>)
            i == FindPermission(perms, agent_id)
        IN
        /\ topic_permissions' =
              DictSet(topic_permissions, topic,
                      IF i # 0
                      THEN [perms EXCEPT ![i].permission_level = g[3],
                                         ![i].granted_by = g[4]]
                      ELSE Append(perms, TopicPermission(agent_id, g[3], g[4])))
        /\ tv_ret' = [op |-> "grant_permission", topic |-> topic,
                      agent_id |-> agent_id, permission_level |-> g[3],
                      granted_by |-> g[4],
                      log |-> IF i # 0 THEN "Updated permission" ELSE "Granted",
                      ret |-> TRUE]
        /\ UNCHANGED otherThanPerm

\* revoke_permission(topic, agent_id, revoked_by)
RevokePermission ==
    \E topic \in PermTopics, agent_id \in PermAgents :
        LET has == DictHas(topic_permissions, topic)
            kept == IF has THEN WithoutAgent(topic_permissions[topic], agent_id)
                    ELSE <<>>
        IN
        /\ topic_permissions' =
              IF has THEN DictSet(topic_permissions, topic, kept)
              ELSE topic_permissions
        /\ tv_ret' = [op |-> "revoke_permission", topic |-> topic,
                      agent_id |-> agent_id,
                      ret |-> has /\ Len(kept) < Len(topic_permissions[topic])]
        /\ UNCHANGED otherThanPerm

\* check_permission(topic, agent_id, required_permission)
CheckPermission ==
    \E topic \in PermTopics, agent_id \in PermAgents,
       required_permission \in PermissionLevels :
        /\ tv_ret' = [op |-> "check_permission", topic |-> topic,
                      agent_id |-> agent_id,
                      required_permission |-> required_permission,
                      ret |-> CheckPermissionOn(topic_permissions, topic, agent_id,
                                                required_permission)]
        /\ UNCHANGED <<topic_permissions, otherThanPerm>>

PermNext ==
    \/ GrantPermission
    \/ RevokePermission
    \/ CheckPermission

\* TopicType; SYSTEM has no entry in self.topic_patterns
TopicTypes == {"general", "team", "project", "private", "system", "random"}

\* self.reserved_topics
S_system  == <<"s","y","s","t","e","m">>
S_admin   == <<"a","d","m","i","n">>
S_config  == <<"c","o","n","f","i","g">>
S_logs    == <<"l","o","g","s">>
S_metrics == <<"m","e","t","r","i","c","s">>
S_health  == <<"h","e","a","l","t","h">>
ReservedTopics == {S_system, S_admin, S_config, S_logs, S_metrics, S_health}

\* self.max_topic_length and self.min_topic_length
MaxTopicLength == 50
MinTopicLength == 3

\* the character class [a-z0-9-]
NameChars ==
    SeqToSet(LowerChars) \cup {"0","1","2","3","4","5","6","7","8","9"} \cup {"-"}

\* the part of s that a pattern ending in $ has to cover: $ matches at the
\* end of the string and also just before a newline that ends the string
BeforeDollar(s) ==
    IF Len(s) > 0 /\ s[Len(s)] = "\n" THEN {s, SubSeq(s, 1, Len(s) - 1)}
    ELSE {s}

\* re.match(r"^<prefix>[a-z0-9-]+$", s)
ReMatchNameChars(prefix, s) ==
    \E b \in BeforeDollar(s) :
        /\ Len(b) > Len(prefix)
        /\ SubSeq(b, 1, Len(prefix)) = prefix
        /\ \A i \in (Len(prefix) + 1)..Len(b) : b[i] \in NameChars

S_teamDash    == <<"t","e","a","m","-">>
S_projectDash == <<"p","r","o","j","e","c","t","-">>
S_privateDash == <<"p","r","i","v","a","t","e","-">>
S_random      == <<"r","a","n","d","o","m">>

\* re.match(self.topic_patterns[topic_type], topic_name)
MatchesTypePattern(topic_type, topic_name) ==
    CASE topic_type = "team"    -> ReMatchNameChars(S_teamDash, topic_name)
      [] topic_type = "project" -> ReMatchNameChars(S_projectDash, topic_name)
      [] topic_type = "private" -> ReMatchNameChars(S_privateDash, topic_name)
      [] topic_type = "general" -> ReMatchNameChars(<<>>, topic_name)
      [] topic_type = "random"  -> S_random \in BeforeDollar(topic_name)

\* the errors list of validate_topic_name(topic_name, topic_type), each
\* message by the check that appends it; topic_type is Optional
ValidationErrors(topic_name, topic_type) ==
    (IF Len(topic_name) < MinTopicLength THEN <<"too short">>
     ELSE IF Len(topic_name) > MaxTopicLength THEN <<"too long">>
     ELSE <<>>)
    \o (IF Lower(topic_name) \in ReservedTopics THEN <<"is reserved">> ELSE <<>>)
    \o (IF ~ReMatchNameChars(<<>>, topic_name)
        THEN <<"can only contain lowercase letters, numbers, and hyphens">>
        ELSE <<>>)
    \o (IF StrIn(<<"-","-">>, topic_name)
        THEN <<"cannot contain consecutive hyphens">> ELSE <<>>)
    \o (IF \/ (Len(topic_name) > 0 /\ topic_name[1] = "-")
           \/ (Len(topic_name) > 0 /\ topic_name[Len(topic_name)] = "-")
        THEN <<"cannot start or end with a hyphen">> ELSE <<>>)
    \o (IF /\ ~IsNone(topic_type)
           /\ topic_type[1] \in {"team", "project", "private", "general", "random"}
           /\ ~MatchesTypePattern(topic_type[1], topic_name)
        THEN <<"does not match pattern">> ELSE <<>>)

\* c repeated n times
Repeat(c, n) == [i \in 1..n |-> c]

\* the topic names validated
TopicNames ==
    { <<"a","b">>, <<"a","b","c">>, Repeat("a", MaxTopicLength),
      Repeat("a", MaxTopicLength + 1),
      <<"a","b","-","-","c","d">>, <<"-","a","b","c">>, <<"a","b","c","-">>,
      S_logs, <<"L","o","g","s">>, S_system, S_random,
      <<"t","e","a","m","-","x">>, <<"t","e","a","m","s">>,
      <<"p","r","o","j","e","c","t","-","1">>, <<"p","r","i","v","a","t","e","-","x">>,
      <<"t","e","s","t","_","t","o","p","i","c","!">>,
      <<"a","b","c","\n">>, <<"9","-","9">>, <<>> }

otherThanValidate ==
    <<routerVars, subsVars, fltVars, errVars, convVars, topic_permissions, tv_ret,
      agentVars, loopVars, dlyVars, tmVars, mbVars>>

\* validate_topic_name(topic_name, topic_type); _find_similar_topics gives
\* [], so there are no warnings
ValidateTopicName ==
    \E topic_name \in TopicNames,
       topic_type \in {NoneV} \cup {Some(t) : t \in TopicTypes} :
        LET errors == ValidationErrors(topic_name, topic_type) IN
        /\ tv_val' = [op |-> "validate_topic_name", topic_name |-> topic_name,
                      topic_type |-> topic_type, is_valid |-> Len(errors) = 0,
                      errors |-> errors, warnings |-> <<>>]
        /\ UNCHANGED otherThanValidate

ValidateNext == ValidateTopicName

(***************************************************************************)
(* EnhancedAgent (core/enhanced_agent.py) with its MessageBroker           *)
(* (core/message_broker.py): one agent, whose managers are the components  *)
(* above.  What the producer is asked to send is recorded per send_message *)
(* call.                                                                   *)
(***************************************************************************)
\* self.agent_id and self.role
AgentId == "a1"
AgentRole == "developer"

\* the topics the agent subscribes to and sends on
AgentTopics == {"ops"}

\* the rules _setup_default_routing_rules adds
DefaultRules ==
    << Rule("high_priority_urgent", "priority", "prio_high",
            <<"urgent", "alerts">>, 100, TRUE),
       Rule("task_routing", "message_type", "type_task",
            <<"tasks", "work">>, 50, TRUE) >>

\* the (message_type, priority, content) of the send_message calls
SendInputs ==
    { <<"text", "normal", S_routineUpdate>>, <<"text", "high", S_ThisIsURGENT>>,
      <<"task", "high", S_NewTask>> }

\* the (sender_id, message_type, content) of the messages the consumer
\* receives
IncomingInputs ==
    { <<"a2", "notification", S_routineUpdate>>, <<"a2", "notification", S_ThisIsURGENT>>,
      <<"a2", "task", S_routineUpdate>>, <<"a2", "heartbeat", S_routineUpdate>>,
      <<"a1", "notification", S_ThisIsURGENT>> }

\* self.message_handlers.get(message_type): which handler, or None
MessageHandlersGet(message_type) ==
    CASE message_type = "text"         -> "_handle_text_message"
      [] message_type = "task"         -> "_handle_task_message"
      [] message_type = "query"        -> "_handle_query_message"
      [] message_type = "notification" -> "_handle_notification_message"
      [] OTHER                         -> None

\* MessageBroker.publish_message(message): the topic producer.send is
\* called with
PublishTopic(message) == message.topic

\* the _send_to_topic calls of send_message, the extra targets first (in
\* the order list(set) gives, here: any one order) and the original topic
\* last: for each call the target it was made for and the topic published to
SendCalls(message, target_topics) ==
    LET others == target_topics \ {message.topic}
        order == CHOOSE s \in [1..Cardinality(others) -> others] :
                    \A t \in others : \E i \in DOMAIN s : s[i] = t
    IN
    [i \in 1..(Cardinality(others) + 1) |->
        [target |-> IF i <= Cardinality(others) THEN order[i] ELSE message.topic,
         topic |-> PublishTopic(message)]]

\* send_message for the message made from its arguments, on the router
\* history rh and the conversation dicts cm; fail_at = k > 0 makes the k-th
\* publish raise.  ErrorHandler has no handle_message_error (only its
\* subclass MessageErrorHandler has), so the except branch of
\* _send_to_topic raises AttributeError, which ends send_message.
SendMessageOn(rh, cm, message, fail_at, now) ==
    LET r == RouteTargets(routing_rules, message)
        calls == SendCalls(message, r.target_topics)
        failed == fail_at > 0 /\ fail_at <= Len(calls)
        history == TrimHistory(Append(rh,
                      [message |-> message.id,
                       target_topics |-> ListOfSet(r.target_topics),
                       routing_rules |-> r.matched_rules,
                       timestamp |-> message.timestamp]))
    IN
    [route_history |-> history,
     target_topics |-> r.target_topics,
     sent |-> IF failed THEN SubSeq(calls, 1, fail_at - 1) ELSE calls,
     raised |-> IF failed THEN "AttributeError" ELSE None,
     cm |-> IF failed THEN cm
            ELSE AddMessageToThreadOn(cm, message, NoneV, now).cm]
\* the message made by AgentMessage(...): its id is new
AgentMessage(sender_id, sender_role, message_type, priority, content, topic, n) ==
    Msg(Len(conv_msgs) + n, sender_id, sender_role, message_type, priority,
        content, topic, {}, conv_now)

\* what conv_msgs keeps of a message
Created(message) ==
    [id |-> message.id, sender_id |-> message.sender_id, topic |-> message.topic,
     timestamp |-> message.timestamp]

otherThanAgent ==
    <<subs_ret, fltVars, errVars, conv_now, conv_log, tv_val, loopVars, dlyVars,
      tmVars, mbVars>>

AgentInit ==
    /\ broker_consumers = {}
    /\ broker_sent = <<>>
    /\ agent_state = [subscribed_topics |-> {}, conversation_history |-> <<>>,
                      last_activity |-> None]
    /\ agent_ret = [op |-> None]

\* the two add_routing_rule tasks _setup_default_routing_rules creates in
\* __init__; they run one after the other when the event loop next gets
\* control, which may be after calls made without a suspension in between
SetupDefaultRoutingRules ==
    /\ routing_rules = <<>>
    /\ routing_rules' =
          SortByPriorityDesc(
              AppendRule(SortByPriorityDesc(AppendRule(<<>>, DefaultRules[1])),
                         DefaultRules[2]))
    /\ router_ret' = [op |-> "add_routing_rule"]
    /\ agent_ret' = [op |-> "_setup_default_routing_rules"]
    /\ UNCHANGED <<route_history, sub_heap, subscriptions, agent_subscriptions,
                   threads, topic_threads, agent_threads, message_threads,
                   thread_messages, conversation_contexts, conv_msgs,
                   topic_permissions, tv_ret, broker_consumers, broker_sent,
                   agent_state, otherThanAgent>>

\* subscribe_to_topic_advanced(topic, subscription_type, filter_criteria):
\* the subscription manager records the subscription, the broker makes a
\* consumer for the topic unless it has one
SubscribeToTopicAdvanced ==
    \E topic \in AgentTopics, k \in {"none", "keywords"} :
        LET id == Len(sub_heap) + 1
            subscription ==
                [topic |-> topic, agent_id |-> AgentId,
                 subscription_type |-> SubscriptionTypeOf(k),
                 filter_criteria |-> k, active |-> TRUE,
                 message_count |-> 0, last_message_at |-> None]
        IN
        /\ Len(sub_heap) < MaxSubs
        /\ sub_heap' = Append(sub_heap, subscription)
        /\ subscriptions' =
              DictSet(subscriptions, topic, Append(DictGet(subscriptions, topic, <<>>), id))
        /\ agent_subscriptions' =
              DictSet(agent_subscriptions, AgentId,
                      Append(DictGet(agent_subscriptions, AgentId, <<>>), id))
        /\ broker_consumers' = broker_consumers \cup {topic}
        /\ agent_state' = [agent_state EXCEPT !.subscribed_topics = @ \cup {topic}]
        /\ agent_ret' = [op |-> "subscribe_to_topic_advanced", topic |-> topic,
                         ret |-> TRUE]
        /\ UNCHANGED <<routerVars, threads, topic_threads, agent_threads,
                       message_threads, thread_messages, conversation_contexts,
                       conv_msgs, topic_permissions, tv_ret, broker_sent,
                       otherThanAgent>>

\* topic_validator.grant_permission(topic, agent_id, READ, granted_by) for
\* the agent
GrantToAgent ==
    \E topic \in AgentTopics :
        LET perms == DictGet(topic_permissions, topic, <<>>)
            i == FindPermission(perms, AgentId)
        IN
        /\ topic_permissions' =
              DictSet(topic_permissions, topic,
                      IF i # 0
                      THEN [perms EXCEPT ![i].permission_level = "read",
                                         ![i].granted_by = "admin"]
                      ELSE Append(perms, TopicPermission(AgentId, "read", "admin")))
        /\ tv_ret' = [op |-> "grant_permission", topic |-> topic,
                      agent_id |-> AgentId, permission_level |-> "read",
                      granted_by |-> "admin",
                      log |-> IF i # 0 THEN "Updated permission" ELSE "Granted",
                      ret |-> TRUE]
        /\ agent_ret' = [op |-> "grant_permission"]
        /\ UNCHANGED <<routerVars, sub_heap, subscriptions, agent_subscriptions,
                       threads, topic_threads, agent_threads, message_threads,
                       thread_messages, conversation_contexts, conv_msgs,
                       broker_consumers, broker_sent, agent_state, otherThanAgent>>

\* send_message(content, topic, message_type, priority)
SendMessage ==
    \E topic \in AgentTopics, in \in SendInputs, fail_at \in 0..3 :
        LET message == AgentMessage(AgentId, AgentRole, in[1], in[2], in[3], topic, 1)
            r == SendMessageOn(route_history, ConvState, message, fail_at, conv_now)
        IN
        /\ Len(conv_msgs) < MaxMessages
        /\ fail_at <= Cardinality(r.target_topics \ {topic}) + 1
        /\ conv_msgs' = Append(conv_msgs, Created(message))
        /\ route_history' = r.route_history
        /\ router_ret' = [op |-> "route_message", message |-> message,
                          ret |-> ListOfSet(r.target_topics)]
        /\ broker_sent' = r.sent
        /\ SetConvState(r.cm)
        /\ agent_ret' = [op |-> "send_message", message |-> message,
                         target_topics |-> r.target_topics, raised |-> r.raised,
                         ret |-> IF r.raised = None THEN message.id ELSE None]
        /\ UNCHANGED <<routing_rules, sub_heap, subscriptions, agent_subscriptions,
                       topic_permissions, tv_ret, broker_consumers, agent_state,
                       otherThanAgent>>
S_ReceivedTask == <<"R","e","c","e","i","v","e","d"," ","t","a","s","k",":"," ">>

\* _handle_message_advanced(message), run as the task the consumer's handler
\* creates for a message read from a topic the broker has a consumer for.
\* The messages are of the kinds whose handlers need no LLM call.
HandleMessageAdvanced ==
    \E topic \in broker_consumers, in \in IncomingInputs, fail_at \in 0..1 :
        LET message == AgentMessage(in[1], IF in[1] = AgentId THEN AgentRole ELSE "tester",
                                    in[2], "normal", in[3], topic, 1)
            from_self == message.sender_id = AgentId
            permitted == CheckPermissionOn(topic_permissions, message.topic,
                                           AgentId, "read")
            dropped == from_self \/ ~permitted
            folded == AddMessageToThreadOn(ConvState, message, NoneV, conv_now)
            handler == MessageHandlersGet(message.message_type)
            replies == ~dropped /\ handler = "_handle_task_message"
            reply == AgentMessage(AgentId, AgentRole, "response", "normal",
                                  S_ReceivedTask \o message.content, message.topic, 2)
            s == SendMessageOn(route_history, folded.cm, reply, fail_at, conv_now)
            raised == IF replies THEN s.raised ELSE None
        IN
        /\ Len(conv_msgs) + (IF replies THEN 2 ELSE 1) <= MaxMessages
        /\ ~replies => fail_at = 0
        /\ conv_msgs' = IF dropped THEN conv_msgs
                        ELSE IF replies
                        THEN conv_msgs \o <<Created(message), Created(reply)>>
                        ELSE Append(conv_msgs, Created(message))
        /\ SetConvState(IF dropped THEN ConvState
                        ELSE IF replies THEN s.cm ELSE folded.cm)
        /\ route_history' = IF replies THEN s.route_history ELSE route_history
        /\ router_ret' = IF replies
                         THEN [op |-> "route_message", message |-> reply,
                               ret |-> ListOfSet(s.target_topics)]
                         ELSE router_ret
        /\ broker_sent' = IF replies THEN s.sent ELSE broker_sent
        /\ agent_state' =
              IF dropped THEN agent_state
              ELSE [agent_state EXCEPT
                       !.conversation_history = Append(@, message.id),
                       !.last_activity = IF raised = None THEN message.timestamp
                                         ELSE @]
        /\ agent_ret' = [op |-> "_handle_message_advanced", message |-> message,
                         folded |-> ~dropped,
                         handler |-> IF dropped THEN None ELSE handler,
                         raised |-> raised]
        /\ UNCHANGED <<routing_rules, sub_heap, subscriptions, agent_subscriptions,
                       topic_permissions, tv_ret, broker_consumers, otherThanAgent>>

AgentNext ==
    \/ SetupDefaultRoutingRules
    \/ SubscribeToTopicAdvanced
    \/ GrantToAgent
    \/ SendMessage
    \/ HandleMessageAdvanced

(***************************************************************************)
(* The calls of MessageRouter and SubscriptionManager as coroutines run as *)
(* tasks of one asyncio event loop.  A task that the loop runs keeps the   *)
(* loop until it ends or until an `await` in it suspends; the statements   *)
(* that change the rule list or the subscription indexes are steps of      *)
(* their own.                                                              *)
(***************************************************************************)
\* tasks created in a run
MaxTasks == 3

\* what a coroutine awaits: _evaluate_rule, _message_matches_filter and
\* update_rule hold no await
AwaitedBy(coroutine) ==
    CASE coroutine = "MessageRouter.route_message" -> {"_evaluate_rule"}
      [] coroutine = "SubscriptionManager.route_message" -> {"_message_matches_filter"}
      [] coroutine = "enable_rule" -> {"update_rule"}
      [] coroutine = "disable_rule" -> {"update_rule"}
      [] coroutine = "_retry_operation" -> {"asyncio.sleep", "retry_func"}
      [] coroutine = "handle_error" -> {"_retry_operation"}
      [] OTHER -> {}

\* the awaitables that give the event loop to other tasks
Waits == {"asyncio.sleep"}

AwaitSuspendsAlways(callee) == TRUE

\* whether `await callee(...)` lets other tasks run before it returns: only
\* if the callee, or a coroutine it awaits, waits
AwaitSuspends(callee) ==
    \/ callee \in Waits
    \/ \E c \in AwaitedBy(callee) : c \in Waits \/ AwaitedBy(c) \cap Waits # {}

\* the rules and the new priority of the router calls
LoopRule(id) ==
    CASE id = "r1" -> Rule("r1", "content_keyword", "kw_urgent_important",
                           <<"alerts", "alerts">>, 0, TRUE)
      [] id = "r2" -> Rule("r2", "priority", "prio_high", <<"ops", "alerts">>, 0, TRUE)
LoopNewPriority == 1

\* the message of the route_message calls of either class
LoopRouterMessage == CHOOSE m \in RouterMessages : m.id = 1
LoopSubsMessage == CHOOSE m \in SubsMessages : m.id = 2

\* the calls made as tasks: the method and its arguments
LoopCalls ==
    { <<"route_message">>,
      <<"add_routing_rule", "r1">>, <<"add_routing_rule", "r2">>,
      <<"remove_routing_rule", "r1">>,
      <<"update_rule", "r2">>,
      <<"subs.route_message">>,
      <<"subscribe_agent_to_topic", "a1", "ops", "none">>,
      <<"subscribe_agent_to_topic", "a2", "ops", "keywords">>,
      <<"unsubscribe_agent_from_topic", "a1", "ops">>,
      <<"pause_subscription", "a2", "ops">> }

otherThanLoop == <<fltVars, errVars, convVars, tvVars, agentVars, dlyVars, tmVars, mbVars>>

LoopInit ==
    /\ ev_tasks = <<>>
    /\ ev_running = 0

\* the frame of a task that has ended
Done == [pc |-> "done"]

\* the event loop is free for task t, or t is the task it is running
HasLoop(t) == ev_running \in {0, t}

\* task t goes on with the frame f, keeping the loop
Continue(t, f) ==
    /\ ev_tasks' = [ev_tasks EXCEPT ![t] = f]
    /\ ev_running' = t

\* task t goes on with the frame f after `await callee(...)`
AfterAwait(t, f, callee) ==
    /\ ev_tasks' = [ev_tasks EXCEPT ![t] = f]
    /\ ev_running' = IF AwaitSuspends(callee) THEN 0 ELSE t

\* task t returns
Return(t) ==
    /\ ev_tasks' = [ev_tasks EXCEPT ![t] = Done]
    /\ ev_running' = 0

\* asyncio.create_task(call)
CreateTask ==
    \E call \in LoopCalls :
        /\ Len(ev_tasks) < MaxTasks
        /\ ev_tasks' = Append(ev_tasks, [pc |-> "ready", call |-> call])
        /\ UNCHANGED <<ev_running, routerVars, subsVars, otherThanLoop>>

\* the task t is to run call and is at pc
At(t, method, pc) ==
    /\ ev_tasks[t].pc = pc
    /\ ev_tasks[t].call[1] = method
    /\ HasLoop(t)

\* MessageRouter.route_message: up to the for loop
RouteBegin ==
    \E t \in DOMAIN ev_tasks :
        /\ At(t, "route_message", "ready")
        /\ Continue(t, [ev_tasks[t] EXCEPT !.pc = "for"] @@
                       [i |-> 1, target_topics |-> {}, matched_rules |-> <<>>])
        /\ UNCHANGED <<routerVars, subsVars, otherThanLoop>>

\* one pass of its for loop over self.routing_rules, the list as it is now
RouteIterate ==
    \E t \in DOMAIN ev_tasks :
        LET f == ev_tasks[t]
            rule == routing_rules[f.i]
            matches == rule.active /\ EvaluateRule(LoopRouterMessage, rule)
            g == [f EXCEPT !.i = @ + 1,
                           !.target_topics =
                               IF matches THEN @ \cup SeqToSet(rule.target_topics)
                               ELSE @,
                           !.matched_rules =
                               IF matches THEN Append(@, rule.rule_id) ELSE @]
        IN
        /\ At(t, "route_message", "for")
        /\ f.i <= Len(routing_rules)
        /\ IF rule.active THEN AfterAwait(t, g, "_evaluate_rule")
           ELSE Continue(t, g)
        /\ UNCHANGED <<routerVars, subsVars, otherThanLoop>>

\* the end of the for loop: the route is recorded and returned
RouteFinish ==
    \E t \in DOMAIN ev_tasks :
        LET f == ev_tasks[t] IN
        /\ At(t, "route_message", "for")
        /\ f.i > Len(routing_rules)
        /\ route_history' =
              TrimHistory(Append(route_history,
                  [message |-> LoopRouterMessage.id,
                   target_topics |-> ListOfSet(f.target_topics),
                   routing_rules |-> f.matched_rules,
                   timestamp |-> LoopRouterMessage.timestamp]))
        /\ router_ret' = [op |-> "route_message", message |-> LoopRouterMessage,
                          ret |-> ListOfSet(f.target_topics)]
        /\ Return(t)
        /\ UNCHANGED <<routing_rules, subsVars, otherThanLoop>>

\* add_routing_rule: self.routing_rules.append(rule)
AddRuleAppend ==
    \E t \in DOMAIN ev_tasks :
        /\ At(t, "add_routing_rule", "ready")
        /\ routing_rules' = AppendRule(routing_rules, LoopRule(ev_tasks[t].call[2]))
        /\ Continue(t, [ev_tasks[t] EXCEPT !.pc = "sort"])
        /\ UNCHANGED <<route_history, router_ret, subsVars, otherThanLoop>>

\* add_routing_rule: self.routing_rules.sort(...), and the return
AddRuleSort ==
    \E t \in DOMAIN ev_tasks :
        /\ At(t, "add_routing_rule", "sort")
        /\ routing_rules' = SortByPriorityDesc(routing_rules)
        /\ router_ret' = [op |-> "add_routing_rule"]
        /\ Return(t)
        /\ UNCHANGED <<route_history, subsVars, otherThanLoop>>

\* remove_routing_rule
RemoveRule ==
    \E t \in DOMAIN ev_tasks :
        LET i == FirstWithId(routing_rules, ev_tasks[t].call[2]) IN
        /\ At(t, "remove_routing_rule", "ready")
        /\ routing_rules' = IF i = 0 THEN routing_rules ELSE DeleteAt(routing_rules, i)
        /\ router_ret' = [op |-> "remove_routing_rule",
                          rule_id |-> ev_tasks[t].call[2], ret |-> (i # 0)]
        /\ Return(t)
        /\ UNCHANGED <<route_history, subsVars, otherThanLoop>>

\* update_rule(rule_id, priority=p): setattr(rule, "priority", p)
UpdateRuleSetattr ==
    \E t \in DOMAIN ev_tasks :
        LET i == FirstWithId(routing_rules, ev_tasks[t].call[2]) IN
        /\ At(t, "update_rule", "ready")
        /\ IF i = 0
           THEN /\ router_ret' = [op |-> "update_rule", ret |-> FALSE]
                /\ Return(t)
                /\ UNCHANGED routing_rules
           ELSE /\ routing_rules' = [routing_rules EXCEPT ![i].priority = LoopNewPriority]
                /\ Continue(t, [ev_tasks[t] EXCEPT !.pc = "sort"])
                /\ UNCHANGED router_ret
        /\ UNCHANGED <<route_history, subsVars, otherThanLoop>>

\* update_rule: the sort after a priority update, and the return
UpdateRuleSort ==
    \E t \in DOMAIN ev_tasks :
        /\ At(t, "update_rule", "sort")
        /\ routing_rules' = SortByPriorityDesc(routing_rules)
        /\ router_ret' = [op |-> "update_rule", ret |-> TRUE]
        /\ Return(t)
        /\ UNCHANGED <<route_history, subsVars, otherThanLoop>>

\* the list object the for loop of SubscriptionManager.route_message in the
\* frame f iterates: the value of self.subscriptions[topic] as it is now, or
\* the object an unsubscribe has replaced there since the loop began
IteratedList(f) ==
    IF f.replaced = <<>> THEN subscriptions[LoopSubsMessage.topic] ELSE f.replaced[1]

\* SubscriptionManager.route_message: up to the for loop
SubsRouteBegin ==
    \E t \in DOMAIN ev_tasks :
        /\ At(t, "subs.route_message", "ready")
        /\ IF ~DictHas(subscriptions, LoopSubsMessage.topic)
           THEN /\ subs_ret' = [op |-> "route_message", message |-> LoopSubsMessage,
                                raised |-> FALSE, ret |-> <<>>]
                /\ Return(t)
           ELSE /\ Continue(t, [ev_tasks[t] EXCEPT !.pc = "for"] @@
                               [i |-> 1, replaced |-> <<>>, matching |-> <<>>])
                /\ UNCHANGED subs_ret
        /\ UNCHANGED <<sub_heap, subscriptions, agent_subscriptions, routerVars,
                       otherThanLoop>>

\* one pass of its for loop
SubsRouteIterate ==
    \E t \in DOMAIN ev_tasks :
        LET f == ev_tasks[t]
            id == IteratedList(f)[f.i]
            subscription == sub_heap[id]
            skipped == ~subscription.active
                       \/ subscription.agent_id = LoopSubsMessage.sender_id
            m == MessageMatchesFilter(LoopSubsMessage,
                                      SubFilterVal(subscription.filter_criteria))
        IN
        /\ At(t, "subs.route_message", "for")
        /\ f.i <= Len(IteratedList(f))
        /\ IF skipped
           THEN /\ Continue(t, [f EXCEPT !.i = @ + 1])
                /\ UNCHANGED <<sub_heap, subs_ret>>
           ELSE IF m.raised
           THEN /\ subs_ret' = [op |-> "route_message", message |-> LoopSubsMessage,
                                raised |-> TRUE, ret |-> <<>>]
                /\ Return(t)
                /\ UNCHANGED sub_heap
           ELSE /\ AfterAwait(t, [f EXCEPT !.i = @ + 1,
                                           !.matching = IF m.value THEN Append(@, id)
                                                        ELSE @],
                              "_message_matches_filter")
                /\ sub_heap' =
                      IF m.value
                      THEN [sub_heap EXCEPT ![id].message_count = @ + 1,
                                            ![id].last_message_at =
                                                LoopSubsMessage.timestamp]
                      ELSE sub_heap
                /\ UNCHANGED subs_ret
        /\ UNCHANGED <<subscriptions, agent_subscriptions, routerVars, otherThanLoop>>

\* the end of the for loop: the matching subscriptions are returned
SubsRouteFinish ==
    \E t \in DOMAIN ev_tasks :
        LET f == ev_tasks[t] IN
        /\ At(t, "subs.route_message", "for")
        /\ f.i > Len(IteratedList(f))
        /\ subs_ret' = [op |-> "route_message", message |-> LoopSubsMessage,
                        raised |-> FALSE, ret |-> f.matching]
        /\ Return(t)
        /\ UNCHANGED <<sub_heap, subscriptions, agent_subscriptions, routerVars,
                       otherThanLoop>>

\* subscribe_agent_to_topic: the subscription is made and appended to
\* self.subscriptions[topic]
SubscribeTopicIndex ==
    \E t \in DOMAIN ev_tasks :
        LET call == ev_tasks[t].call
            id == Len(sub_heap) + 1
            subscription ==
                [topic |-> call[3], agent_id |-> call[2],
                 subscription_type |-> SubscriptionTypeOf(call[4]),
                 filter_criteria |-> call[4], active |-> TRUE,
                 message_count |-> 0, last_message_at |-> None]
        IN
        /\ At(t, "subscribe_agent_to_topic", "ready")
        /\ sub_heap' = Append(sub_heap, subscription)
        /\ subscriptions' =
              DictSet(subscriptions, call[3],
                      Append(DictGet(subscriptions, call[3], <<>>), id))
        /\ Continue(t, [ev_tasks[t] EXCEPT !.pc = "agent index"] @@ [subscription |-> id])
        /\ UNCHANGED <<agent_subscriptions, subs_ret, routerVars, otherThanLoop>>

\* subscribe_agent_to_topic: the append to self.agent_subscriptions[agent_id],
\* and the return
SubscribeAgentIndex ==
    \E t \in DOMAIN ev_tasks :
        LET f == ev_tasks[t] IN
        /\ At(t, "subscribe_agent_to_topic", "agent index")
        /\ agent_subscriptions' =
              DictSet(agent_subscriptions, f.call[2],
                      Append(DictGet(agent_subscriptions, f.call[2], <<>>),
                             f.subscription))
        /\ subs_ret' = [op |-> "subscribe", ret |-> f.subscription]
        /\ Return(t)
        /\ UNCHANGED <<sub_heap, subscriptions, routerVars, otherThanLoop>>

\* the frames after self.subscriptions[topic] is bound to a new list: a for
\* loop over the old list keeps the old list
Rebound(tasks, topic) ==
    [u \in DOMAIN tasks |->
        IF /\ tasks[u].pc = "for"
           /\ tasks[u].call[1] = "subs.route_message"
           /\ LoopSubsMessage.topic = topic
           /\ tasks[u].replaced = <<>>
        THEN [tasks[u] EXCEPT !.replaced = <<subscriptions[topic]>>]
        ELSE tasks[u]]

\* unsubscribe_agent_from_topic: self.subscriptions[topic] is bound to a new
\* list without the agent's subscriptions, or the key is deleted
UnsubscribeTopicIndex ==
    \E t \in DOMAIN ev_tasks :
        LET agent_id == ev_tasks[t].call[2]
            topic == ev_tasks[t].call[3]
            keepT == {i \in 1..Len(sub_heap) :
                        ~(sub_heap[i].agent_id = agent_id /\ sub_heap[i].topic = topic)}
            leftT == FilterSeq(DictGet(subscriptions, topic, <<>>), keepT)
            removed == DictHas(subscriptions, topic)
        IN
        /\ At(t, "unsubscribe_agent_from_topic", "ready")
        /\ subscriptions' =
              IF ~removed THEN subscriptions
              ELSE IF leftT = <<>> THEN DictDel(subscriptions, topic)
              ELSE DictSet(subscriptions, topic, leftT)
        /\ ev_tasks' =
              [(IF removed THEN Rebound(ev_tasks, topic) ELSE ev_tasks)
                  EXCEPT ![t] = [ev_tasks[t] EXCEPT !.pc = "agent index"]
                               @@ [removed |-> removed]]
        /\ ev_running' = t
        /\ UNCHANGED <<sub_heap, agent_subscriptions, subs_ret, routerVars,
                       otherThanLoop>>

\* unsubscribe_agent_from_topic: the same for
\* self.agent_subscriptions[agent_id], and the return
UnsubscribeAgentIndex ==
    \E t \in DOMAIN ev_tasks :
        LET f == ev_tasks[t]
            agent_id == f.call[2]
            topic == f.call[3]
            keepA == {i \in 1..Len(sub_heap) : KeptInAgentIndex(sub_heap[i], topic)}
            leftA == FilterSeq(DictGet(agent_subscriptions, agent_id, <<>>), keepA)
        IN
        /\ At(t, "unsubscribe_agent_from_topic", "agent index")
        /\ agent_subscriptions' =
              IF ~DictHas(agent_subscriptions, agent_id) THEN agent_subscriptions
              ELSE IF leftA = <<>> THEN DictDel(agent_subscriptions, agent_id)
              ELSE DictSet(agent_subscriptions, agent_id, leftA)
        /\ subs_ret' = [op |-> "unsubscribe", agent_id |-> agent_id, topic |-> topic,
                        ret |-> f.removed]
        /\ Return(t)
        /\ UNCHANGED <<sub_heap, subscriptions, routerVars, otherThanLoop>>

\* pause_subscription
PauseTask ==
    \E t \in DOMAIN ev_tasks :
        LET id == FirstSubOf(ev_tasks[t].call[2], ev_tasks[t].call[3]) IN
        /\ At(t, "pause_subscription", "ready")
        /\ sub_heap' = IF id = 0 THEN sub_heap
                       ELSE [sub_heap EXCEPT ![id].active = FALSE]
        /\ subs_ret' = [op |-> "pause_subscription", agent_id |-> ev_tasks[t].call[2],
                        topic |-> ev_tasks[t].call[3], ret |-> (id # 0)]
        /\ Return(t)
        /\ UNCHANGED <<subscriptions, agent_subscriptions, routerVars, otherThanLoop>>

LoopNext ==
    \/ CreateTask
    \/ RouteBegin
    \/ RouteIterate
    \/ RouteFinish
    \/ AddRuleAppend
    \/ AddRuleSort
    \/ RemoveRule
    \/ UpdateRuleSetattr
    \/ UpdateRuleSort
    \/ SubsRouteBegin
    \/ SubsRouteIterate
    \/ SubsRouteFinish
    \/ SubscribeTopicIndex
    \/ SubscribeAgentIndex
    \/ UnsubscribeTopicIndex
    \/ UnsubscribeAgentIndex
    \/ PauseTask

(***************************************************************************)
(* TopicManager (core/topic_manager.py).                                   *)
(***************************************************************************)
\* the topic names and the agents of the TopicManager calls
ManagedTopics == {"ops", "tasks"}
TopicAgents == {"a1", "a2"}

\* TopicInfo(name, created_by, is_private); subscribers starts empty
TopicInfo(name, created_by, is_private) ==
    [name |-> name, created_by |-> created_by, is_private |-> is_private,
     subscribers |-> <<>>]

\* TopicInfo.add_subscriber
AddSubscriber(topic_info, agent_id) ==
    IF agent_id \notin SeqToSet(topic_info.subscribers)
    THEN [topic_info EXCEPT !.subscribers = Append(@, agent_id)]
    ELSE topic_info

\* TopicInfo.remove_subscriber
RemoveSubscriber(topic_info, agent_id) ==
    [topic_info EXCEPT !.subscribers = FilterSeq(@, SeqToSet(@) \ {agent_id})]

\* the authorization test of delete_topic: the call is refused when
\* `topic.created_by != deleted_by and not topic.is_private`
MayDelete(topic, deleted_by) ==
    ~(topic.created_by # deleted_by /\ ~topic.is_private)

otherThanTopics ==
    <<routerVars, subsVars, fltVars, errVars, convVars, tvVars, agentVars, loopVars,
      dlyVars, mbVars>>

TopicManagerInit ==
    /\ tm_topics = <<>>
    /\ tm_agent_subscriptions = <<>>
    /\ tm_ret = [op |-> "init"]

\* create_topic(name, created_by, is_private=...)
CreateTopic ==
    \E name \in ManagedTopics, created_by \in TopicAgents, is_private \in BOOLEAN :
        /\ tm_topics' = IF DictHas(tm_topics, name) THEN tm_topics
                        ELSE DictSet(tm_topics, name,
                                     TopicInfo(name, created_by, is_private))
        /\ tm_ret' = [op |-> "create_topic", topic_name |-> name,
                      agent_id |-> created_by, ret |-> tm_topics'[name].created_by]
        /\ UNCHANGED <<tm_agent_subscriptions, otherThanTopics>>

\* TopicManager.subscribe_agent_to_topic(agent_id, topic_name)
TopicSubscribeAgent ==
    \E agent_id \in TopicAgents, topic_name \in ManagedTopics :
        /\ IF ~DictHas(tm_topics, topic_name)
           THEN /\ UNCHANGED <<tm_topics, tm_agent_subscriptions>>
                /\ tm_ret' = [op |-> "subscribe_agent_to_topic",
                              topic_name |-> topic_name, agent_id |-> agent_id,
                              ret |-> FALSE]
           ELSE /\ tm_agent_subscriptions' =
                      DictSet(tm_agent_subscriptions, agent_id,
                              DictGet(tm_agent_subscriptions, agent_id, {})
                                  \cup {topic_name})
                /\ tm_topics' = [tm_topics EXCEPT
                                    ![topic_name] = AddSubscriber(@, agent_id)]
                /\ tm_ret' = [op |-> "subscribe_agent_to_topic",
                              topic_name |-> topic_name, agent_id |-> agent_id,
                              ret |-> TRUE]
        /\ UNCHANGED otherThanTopics

\* TopicManager.unsubscribe_agent_from_topic(agent_id, topic_name)
TopicUnsubscribeAgent ==
    \E agent_id \in TopicAgents, topic_name \in ManagedTopics :
        /\ IF /\ DictHas(tm_agent_subscriptions, agent_id)
              /\ topic_name \in tm_agent_subscriptions[agent_id]
           THEN /\ tm_agent_subscriptions' =
                      [tm_agent_subscriptions EXCEPT ![agent_id] = @ \ {topic_name}]
                /\ tm_topics' = [tm_topics EXCEPT
                                    ![topic_name] = RemoveSubscriber(@, agent_id)]
                /\ tm_ret' = [op |-> "unsubscribe_agent_from_topic",
                              topic_name |-> topic_name, agent_id |-> agent_id,
                              ret |-> TRUE]
           ELSE /\ UNCHANGED <<tm_topics, tm_agent_subscriptions>>
                /\ tm_ret' = [op |-> "unsubscribe_agent_from_topic",
                              topic_name |-> topic_name, agent_id |-> agent_id,
                              ret |-> FALSE]
        /\ UNCHANGED otherThanTopics

\* delete_topic(topic_name, deleted_by)
DeleteTopic ==
    \E topic_name \in ManagedTopics, deleted_by \in TopicAgents :
        /\ IF \/ ~DictHas(tm_topics, topic_name)
              \/ ~MayDelete(tm_topics[topic_name], deleted_by)
           THEN /\ UNCHANGED <<tm_topics, tm_agent_subscriptions>>
                /\ tm_ret' = [op |-> "delete_topic", topic_name |-> topic_name,
                              agent_id |-> deleted_by, ret |-> FALSE]
           ELSE /\ tm_agent_subscriptions' =
                      [a \in DOMAIN tm_agent_subscriptions |->
                          tm_agent_subscriptions[a] \ {topic_name}]
                /\ tm_topics' = DictDel(tm_topics, topic_name)
                /\ tm_ret' = [op |-> "delete_topic", topic_name |-> topic_name,
                              agent_id |-> deleted_by, ret |-> TRUE]
        /\ UNCHANGED otherThanTopics

TopicsNext ==
    \/ CreateTopic
    \/ TopicSubscribeAgent
    \/ TopicUnsubscribeAgent
    \/ DeleteTopic

(***************************************************************************)
(* MessageBroker (core/message_broker.py) shared by several agents.  Each  *)
(* KafkaConsumer made by subscribe_to_topic is an object of mb_tasks,      *)
(* together with the _consume_messages task that polls it.                 *)
(***************************************************************************)
\* KafkaConsumer objects created in a run
MaxConsumers == 2

\* the topics and the agents of the broker calls
BrokerTopics == {"demo-ask", "ops"}
BrokerAgents == {"agent-echo", "demo-client"}

\* the handler an agent passes to subscribe_to_topic
HandlerOf(agent_id) == <<"handler of", agent_id>>

\* the handlers the running _consume_messages tasks call for a message
\* polled from topic: those of the tasks that have not ended and whose
\* consumer is open
HandlersInvokedOn(tasks, topic) ==
    {tasks[i].handler : i \in {j \in 1..Len(tasks) :
                                 /\ tasks[j].topic = topic
                                 /\ tasks[j].alive
                                 /\ ~tasks[j].closed}}

otherThanBroker ==
    <<routerVars, subsVars, fltVars, errVars, convVars, tvVars, agentVars, loopVars,
      dlyVars, tmVars>>

BrokerInit ==
    /\ mb_running = FALSE
    /\ mb_consumers = <<>>
    /\ mb_message_handlers = <<>>
    /\ mb_tasks = <<>>
    /\ mb_ret = [op |-> "init"]

\* start()
BrokerStart ==
    /\ ~mb_running
    /\ mb_running' = TRUE
    /\ mb_ret' = [op |-> "start"]
    /\ UNCHANGED <<mb_consumers, mb_message_handlers, mb_tasks, otherThanBroker>>

\* stop(): every consumer is closed and self.consumers cleared
BrokerStop ==
    /\ mb_running
    /\ mb_running' = FALSE
    /\ mb_tasks' = [i \in 1..Len(mb_tasks) |->
                       IF \E t \in DOMAIN mb_consumers : mb_consumers[t] = i
                       THEN [mb_tasks[i] EXCEPT !.closed = TRUE]
                       ELSE mb_tasks[i]]
    /\ mb_consumers' = <<>>
    /\ mb_ret' = [op |-> "stop"]
    /\ UNCHANGED <<mb_message_handlers, otherThanBroker>>

\* subscribe_to_topic(topic, agent_id, handler); fails makes KafkaConsumer(...)
\* raise
BrokerSubscribeToTopic ==
    \E topic \in BrokerTopics, agent_id \in BrokerAgents, fails \in BOOLEAN :
        LET handler == HandlerOf(agent_id)
            call == [op |-> "subscribe_to_topic", topic |-> topic,
                     agent_id |-> agent_id, handler |-> handler]
        IN
        /\ DictHas(mb_consumers, topic) \/ Len(mb_tasks) < MaxConsumers
        /\ IF DictHas(mb_consumers, topic)
           THEN \* "Already subscribed to topic": return
                /\ mb_ret' = call @@ [raised |-> None]
                /\ UNCHANGED <<mb_consumers, mb_message_handlers, mb_tasks>>
           ELSE IF fails
           THEN /\ mb_ret' = call @@ [raised |-> "NoBrokersAvailable"]
                /\ UNCHANGED <<mb_consumers, mb_message_handlers, mb_tasks>>
           ELSE /\ mb_tasks' = Append(mb_tasks,
                                      [topic |-> topic, group_id |-> agent_id,
                                       handler |-> handler, closed |-> FALSE,
                                       alive |-> TRUE])
                /\ mb_consumers' = DictSet(mb_consumers, topic, Len(mb_tasks) + 1)
                /\ mb_message_handlers' = DictSet(mb_message_handlers, topic, handler)
                /\ mb_ret' = call @@ [raised |-> None]
        /\ UNCHANGED <<mb_running, otherThanBroker>>

\* unsubscribe_from_topic(topic), called by the agent agent_id
BrokerUnsubscribeFromTopic ==
    \E topic \in BrokerTopics, agent_id \in BrokerAgents :
        /\ IF DictHas(mb_consumers, topic)
           THEN /\ mb_tasks' = [mb_tasks EXCEPT ![mb_consumers[topic]].closed = TRUE]
                /\ mb_consumers' = DictDel(mb_consumers, topic)
                /\ mb_message_handlers' = DictDel(mb_message_handlers, topic)
           ELSE UNCHANGED <<mb_consumers, mb_message_handlers, mb_tasks>>
        /\ mb_ret' = [op |-> "unsubscribe_from_topic", topic |-> topic,
                      agent_id |-> agent_id]
        /\ UNCHANGED <<mb_running, otherThanBroker>>

\* a turn of `while self.running` of a _consume_messages task that ends it:
\* self.running is false, or consumer.poll raises because the consumer is
\* closed
ConsumeLoopEnds ==
    \E i \in 1..Len(mb_tasks) :
        /\ mb_tasks[i].alive
        /\ (~mb_running \/ mb_tasks[i].closed)
        /\ mb_tasks' = [mb_tasks EXCEPT ![i].alive = FALSE]
        /\ mb_ret' = [op |-> "_consume_messages ended", task |-> i]
        /\ UNCHANGED <<mb_running, mb_consumers, mb_message_handlers, otherThanBroker>>

\* a message on topic reaches the transport: the tasks polling the topic
\* call their handlers with it
ConsumeMessage ==
    \E topic \in BrokerTopics :
        /\ mb_running
        /\ mb_ret' = [op |-> "_consume_messages", topic |-> topic,
                      invoked |-> HandlersInvokedOn(mb_tasks, topic)]
        /\ UNCHANGED <<mb_running, mb_consumers, mb_message_handlers, mb_tasks,
                       otherThanBroker>>

BrokerNext ==
    \/ BrokerStart
    \/ BrokerStop
    \/ BrokerSubscribeToTopic
    \/ BrokerUnsubscribeFromTopic
    \/ ConsumeLoopEnds
    \/ ConsumeMessage

(***************************************************************************)
(* The specifications: the whole program, and each component on its own.   *)
(***************************************************************************)
Init == RouterInit /\ SubsInit /\ FilterInit /\ ErrInit /\ ConvInit
        /\ TopicValidatorInit /\ AgentInit /\ LoopInit /\ DelayInit
        /\ TopicManagerInit /\ BrokerInit

Next ==
    \/ RouterNext
    \/ RemoveRoutingRule
    \/ UpdateRulePriority
    \/ ImportRules
    \/ SubsNext
    \/ UpdateSubscriptionFilter
    \/ FilterNext
    \/ ErrNext
    \/ HandleMessageError
    \/ UpdateRetryConfig
    \/ ConvNext
    \/ CloseThread
    \/ ArchiveOldThreads
    \/ PermNext
    \/ ValidateNext
    \/ AgentNext
    \/ LoopNext
    \/ DelayNext
    \/ TopicsNext
    \/ BrokerNext

Spec == Init /\ [][Next]_vars

SpecRouter == Init /\ [][RouterNext]_vars
SpecRules == Init /\ [][RulesNext]_vars
SpecSubs == Init /\ [][SubsNext]_vars
SpecIndex == Init /\ [][IndexNext]_vars
SpecFilter == Init /\ [][FilterNext]_vars
SpecErr == Init /\ [][ErrNext]_vars
SpecRetry == Init /\ [][RetryNext]_vars
SpecMsgErr == Init /\ [][MsgErrNext]_vars
SpecConv == Init /\ [][ConvNext]_vars
SpecArchive == Init /\ [][ArchiveNext]_vars
SpecPerm == Init /\ [][PermNext]_vars
SpecValidate == Init /\ [][ValidateNext]_vars
SpecAgent == Init /\ [][AgentNext]_vars
SpecLoop == Init /\ [][LoopNext]_vars
SpecDelay == Init /\ [][DelayNext]_vars
SpecTopics == Init /\ [][TopicsNext]_vars
SpecBroker == Init /\ [][BrokerNext]_vars

(***************************************************************************)
(* Claims about MessageRouter.route_message.                               *)
(***************************************************************************)
\* C1: the list route_message(M) returns never contains M.topic, also when
\* a matching active rule lists M.topic among its targets.
RouteNeverReturnsOwnTopic ==
    router_ret.op = "route_message" =>
        router_ret.message.topic \notin DOMAIN router_ret.ret

\* the orders a list can be put in
OrdersOf(s) ==
    { [i \in 1..Len(s) |-> s[f[i]]] :
        f \in {g \in [1..Len(s) -> 1..Len(s)] : \A i, j \in 1..Len(s) : g[i] = g[j] => i = j} }

\* the targets of the active rules of the list whose condition matches M
UnionOfMatchingTargets(rules, message) ==
    UNION { SeqToSet(rules[i].target_topics) :
              i \in {j \in 1..Len(rules) :
                       rules[j].active /\ EvaluateRule(message, rules[j])} }

\* C2: route_message(M) returns, each once, exactly the targets of all the
\* active rules whose condition matches M (every rule is evaluated, none
\* after the first match is skipped, inactive rules add nothing), and any
\* other order of the same rules gives the same targets.
RouteReturnsUnionOfMatchingRules ==
    router_ret.op = "route_message" =>
        /\ DOMAIN router_ret.ret =
              UnionOfMatchingTargets(routing_rules, router_ret.message)
        /\ \A t \in DOMAIN router_ret.ret : router_ret.ret[t] = 1
        /\ \A p \in OrdersOf(routing_rules) :
              RouteTargets(p, router_ret.message).target_topics = DOMAIN router_ret.ret

\* a message routed through two matching active rules with different
\* targets, next to an inactive rule or a rule that does not match
RouteThroughTwoMatchingRules ==
    /\ router_ret.op = "route_message"
    /\ \E i, j \in 1..Len(routing_rules) :
          /\ i < j
          /\ routing_rules[i].active /\ routing_rules[j].active
          /\ routing_rules[i].priority = routing_rules[j].priority
          /\ EvaluateRule(router_ret.message, routing_rules[i])
          /\ EvaluateRule(router_ret.message, routing_rules[j])
          /\ SeqToSet(routing_rules[i].target_topics)
                # SeqToSet(routing_rules[j].target_topics)
          /\ SeqToSet(routing_rules[j].target_topics) \subseteq DOMAIN router_ret.ret

(***************************************************************************)
(* Claims about SubscriptionManager.route_message.                         *)
(***************************************************************************)
\* the subscriptions of the heap that route_message(message) is to deliver
\* to: registered on the topic, active, not the sender's, filter matching
DueSubscriptions(heap, index, message) ==
    { i \in SeqToSet(DictGet(index, message.topic, <<>>)) :
        /\ heap[i].active
        /\ heap[i].agent_id # message.sender_id
        /\ MessageMatchesFilter(message, SubFilterVal(heap[i].filter_criteria))
              = Ok(TRUE) }

SuppliedSet(o, emptyCounts) == ~IsNone(o) /\ (emptyCounts \/ o[1] # {})
SuppliedSeq(o, emptyCounts) == ~IsNone(o) /\ (emptyCounts \/ o[1] # <<>>)

\* every supplied clause of the filter f passes for the message
AllSuppliedClausesPass(message, f, emptyCounts) ==
    /\ SuppliedSet(f.message_types, emptyCounts)
          => message.message_type \in f.message_types[1]
    /\ ~IsNone(f.min_priority)
          => PriorityOrderGet(message.priority) >= PriorityOrderGet(f.min_priority[1])
    /\ SuppliedSeq(f.content_keywords, emptyCounts)
          => \E i \in 1..Len(f.content_keywords[1]) :
                StrIn(Lower(f.content_keywords[1][i]), Lower(message.content))
    /\ SuppliedSeq(f.content_regex, emptyCounts)
          => ReSearchIgnoreCase(f.content_regex[1], message.content) = Ok(TRUE)
    /\ SuppliedSet(f.allowed_senders, emptyCounts)
          => message.sender_id \in f.allowed_senders[1]
    /\ SuppliedSet(f.blocked_senders, emptyCounts)
          => message.sender_id \notin f.blocked_senders[1]
    /\ SuppliedSet(f.allowed_roles, emptyCounts)
          => message.sender_role \in f.allowed_roles[1]
    /\ SuppliedSet(f.blocked_roles, emptyCounts)
          => message.sender_role \notin f.blocked_roles[1]
    /\ SuppliedSet(f.metadata_filters, emptyCounts)
          => \A kv \in f.metadata_filters[1] :
                /\ MetaHas(message.metadata, kv[1])
                /\ MetaGet(message.metadata, kv[1]) = kv[2]
    /\ ~IsNone(f.custom_filter)
          => CallCustom(f.custom_filter[1], message) = Ok(TRUE)

\* the filter of the scenario: content keywords ["urgent", "important"]
KeywordsOnlyFilter ==
    Some(Filter(NoneV, NoneV, Some(<<S_urgent, S_important>>), NoneV, NoneV, NoneV,
                NoneV, NoneV, NoneV, NoneV))

\* the scenario: the keywords match "This is URGENT" and not "routine update"
KeywordScenario ==
    (flt_out.done /\ flt_in.filter = KeywordsOnlyFilter) =>
        /\ flt_in.message.content = S_ThisIsURGENT => flt_out.result = Ok(TRUE)
        /\ flt_in.message.content = S_routineUpdate => flt_out.result = Ok(FALSE)

\* C4 as stated: a message passes a filter iff every supplied clause passes,
\* a clause being supplied when its value is given (not None); an absent
\* filter accepts every message; the keywords ["urgent", "important"] match
\* "This is URGENT" and not "routine update".
PassesIffEveryGivenClausePasses ==
    /\ flt_out.done =>
          (flt_out.result = Ok(TRUE)
             <=> (IsNone(flt_in.filter)
                    \/ AllSuppliedClausesPass(flt_in.message, flt_in.filter[1], TRUE)))
    /\ KeywordScenario

\* C4 amended: a message passes a filter iff every clause that is supplied
\* and not empty passes (an empty allow-set, block-set, keyword list,
\* pattern or metadata map is skipped like an absent one); an absent filter
\* accepts every message; the keywords ["urgent", "important"] match
\* "This is URGENT" and not "routine update".
PassesIffEveryNonEmptyClausePasses ==
    /\ flt_out.done =>
          (flt_out.result = Ok(TRUE)
             <=> (IsNone(flt_in.filter)
                    \/ AllSuppliedClausesPass(flt_in.message, flt_in.filter[1], FALSE)))
    /\ KeywordScenario

\* "This is URGENT" passing a filter with the keywords and two more clauses
UrgentPassesKeywordFilter ==
    /\ flt_out.done
    /\ flt_out.result = Ok(TRUE)
    /\ ~IsNone(flt_in.filter)
    /\ flt_in.message.content = S_ThisIsURGENT
    /\ flt_in.filter[1].content_keywords = Some(<<S_urgent, S_important>>)
    /\ ~IsNone(flt_in.filter[1].min_priority)
    /\ ~IsNone(flt_in.filter[1].allowed_senders)

(***************************************************************************)
(* Claims about ErrorHandler and MessageErrorHandler.                      *)
(***************************************************************************)
\* the last call to end was a handle_error, and no call began after it
HandleErrorJustEnded ==
    /\ eh_task.pc = "idle"
    /\ eh_ret.op = "handle_error"
    /\ eh_ret.ctx = Len(error_ctx)

\* the handle_error call that just ended ran out of retries: retry_func was
\* invoked max_retries times and its last invocation raised
RetriesExhausted ==
    /\ HandleErrorJustEnded
    /\ eh_ret.func # None
    /\ eh_ret.invoked = retry_config.max_retries
    /\ FuncOutcome(eh_ret.func, eh_ret.invoked).raised

\* C5: with max_retries = 3 and an operation that fails with a network error
\* every time, handle_error stops after exactly 3 retries and reports failure
\* (None); 4 attempts are on record, the initial failure and the 3 retries
\* numbered 1, 2, 3; the operation is invoked no further time.
StopsAfterThreeRetries ==
    /\ (/\ HandleErrorJustEnded
        /\ eh_ret.func = "always_network"
        /\ IsErrorRetryable(eh_ret.error)
        /\ retry_config.max_retries = 3)
       => /\ eh_ret.invoked = 3
          /\ eh_ret.ret = None
          /\ \E k \in 1..Len(error_history) : error_history[k] = eh_ret.ctx
          /\ Len(retry_history) - eh_ret.attempts_before = 3
          /\ 1 + (Len(retry_history) - eh_ret.attempts_before) = 4
          /\ \A n \in 1..3 :
                LET ra == retry_history[eh_ret.attempts_before + n] IN
                ra.attempt_number = n /\ ra.error = E_ConnectionError /\ ~ra.success
          /\ error_ctx[eh_ret.ctx].retry_count = 3
    /\ eh_task.pc # "idle" => eh_task.invoked < retry_config.max_retries

\* a handle_error call for a network error that ran out of its 3 retries
ThreeRetriesExhausted ==
    /\ RetriesExhausted
    /\ eh_ret.func = "always_network"
    /\ ClassifyError(eh_ret.error) = "network_error"
    /\ eh_ret.invoked = 3

\* C6: when every retry fails, handle_error gives its caller the failure of
\* the last attempt with the number of attempts made, so that the caller can
\* tell exhaustion from a retry that succeeded.
ExhaustionSurfacesLastFailure ==
    RetriesExhausted =>
        /\ eh_ret.ret # None
        /\ eh_ret.ret = [error |-> FuncOutcome(eh_ret.func, eh_ret.invoked).error,
                         attempts |-> eh_ret.invoked]

\* how often x is in the list s
CountIn(s, x) == Cardinality({k \in 1..Len(s) : s[k] = x})

\* C7: for an error classified as validation, permission or unknown,
\* handle_error records the error exactly once and never invokes the retry
\* operation, and is_error_retryable returns false; for network, timeout
\* and transport errors is_error_retryable returns true.
NonRetryableKindsAreNotRetried ==
    /\ (/\ HandleErrorJustEnded
        /\ ClassifyError(eh_ret.error)
              \in {"validation_error", "permission_error", "unknown_error"})
       => /\ eh_ret.invoked = 0
          /\ eh_ret.ret = None
          /\ CountIn(error_history, eh_ret.ctx) = 1
          /\ Len(retry_history) = eh_ret.attempts_before
    /\ eh_task.pc # "idle"
       => ClassifyError(eh_task.error)
             \notin {"validation_error", "permission_error", "unknown_error"}
    /\ eh_ret.op = "is_error_retryable"
       => /\ ClassifyError(eh_ret.error)
                \in {"validation_error", "permission_error", "unknown_error"}
             => eh_ret.ret = FALSE
          /\ ClassifyError(eh_ret.error)
                \in {"network_error", "timeout_error", "message_broker_error"}
             => eh_ret.ret = TRUE

\* handle_error called with a validation error and an operation to retry
ValidationErrorHandled ==
    /\ HandleErrorJustEnded
    /\ ClassifyError(eh_ret.error) = "validation_error"
    /\ eh_ret.func # None
    /\ Len(error_ctx) > 1

\* C8: handle_message_error returns true only if the message is
\* retry-eligible (retry_count < max_retries, not expired by its TTL) and
\* the error's kind is in the retryable set; otherwise it returns false.
MessageRetryNeedsBothChecks ==
    eh_ret.op = "handle_message_error" =>
        (eh_ret.ret <=> (/\ ShouldRetry(eh_ret.message, eh_ret.now)
                         /\ ClassifyError(eh_ret.error) \in retry_config.retryable_errors))

\* C9: the error history and the retry history hold at most
\* max_history_size entries each.
BothHistoriesCapped ==
    /\ Len(error_history) <= ErrMaxHistorySize
    /\ Len(retry_history) <= ErrMaxHistorySize

(***************************************************************************)
(* Claims about ConversationManager.                                       *)
(***************************************************************************)
\* the last three calls were create_thread on a topic and then two
\* add_message_to_thread(message) calls on that topic
CreateThenTwoAdds ==
    /\ Len(conv_log) = 3
    /\ conv_log[1].op = "create_thread"
    /\ conv_log[2].op = "add_message_to_thread"
    /\ conv_log[3].op = "add_message_to_thread"
    /\ conv_log[2].topic = conv_log[1].topic
    /\ conv_log[3].topic = conv_log[1].topic

\* C10: after create_thread on a topic, two add_message_to_thread calls
\* without a thread id on that topic, both made within the timeout window,
\* return the same thread id; two such calls whose messages are stamped
\* more than the timeout apart return two distinct thread ids.
SameThreadWithinTimeoutWindow ==
    CreateThenTwoAdds =>
        /\ conv_log[3].now - conv_log[1].now < ThreadTimeout
              => conv_log[2].ret = conv_log[3].ret
        /\ conv_log[3].timestamp - conv_log[2].timestamp > ThreadTimeout
              => conv_log[2].ret # conv_log[3].ret

\* the active threads of a topic whose last activity is less than the
\* timeout ago
EligibleThreads(topic) ==
    {t \in DOMAIN threads :
        /\ threads[t].topic = topic
        /\ threads[t].is_active
        /\ conv_now - threads[t].last_activity < ThreadTimeout}

\* this step is a call add_message_to_thread(message) without a thread id
AddWithoutThreadIdStep ==
    /\ Len(conv_msgs') = Len(conv_msgs) + 1
    /\ conv_log' # <<>>
    /\ conv_log'[Len(conv_log')].op = "add_message_to_thread"

\* C11: add_message_to_thread without a thread id adds the message to the
\* eligible thread of the topic (active, last activity within the timeout)
\* with the most recent last_activity, and creates a new thread only when
\* the topic has no eligible thread.
ReusesMostRecentlyActiveThread ==
    [][AddWithoutThreadIdStep =>
          LET call == conv_log'[Len(conv_log')]
              eligible == EligibleThreads(call.topic)
          IN
          IF eligible = {} THEN call.ret \notin DOMAIN threads
          ELSE /\ call.ret \in eligible
               /\ \A t \in eligible :
                     threads[t].last_activity <= threads[call.ret].last_activity]_vars

\* the messages added to a thread, in arrival order (message ids are
\* numbered in the order the messages arrive)
RECURSIVE AddedTo(_, _)
AddedTo(thread_id, n) ==
    IF n = 0 THEN <<>>
    ELSE IF DictHas(message_threads, n) /\ message_threads[n] = thread_id
         THEN Append(AddedTo(thread_id, n - 1), n)
         ELSE AddedTo(thread_id, n - 1)

\* the last min(n, Len(s)) elements of s
LastOf(s, n) ==
    IF Len(s) > n THEN SubSeq(s, Len(s) - n + 1, Len(s)) ELSE s

\* C12: the recent_messages of every thread context hold at most
\* max_context_messages entries and equal the last min(N, k) of the k
\* messages added to the thread, in arrival order, each message once.
RecentMessagesAreLastAdded ==
    \A t \in DOMAIN conversation_contexts :
        LET recent == conversation_contexts[t].recent_messages IN
        /\ Len(recent) <= MaxContextMessages
        /\ recent = LastOf(AddedTo(t, Len(conv_msgs)), MaxContextMessages)

(***************************************************************************)
(* Claims about TopicValidator.                                            *)
(***************************************************************************)
\* the order read < write < admin < owner
LevelOrder == <<"read", "write", "admin", "owner">>
LevelRank(level) == CHOOSE i \in 1..Len(LevelOrder) : LevelOrder[i] = level

\* the permission records that exist for (topic, agent_id)
RecordsOf(topic, agent_id) ==
    IF DictHas(topic_permissions, topic)
    THEN {i \in 1..Len(topic_permissions[topic]) :
             topic_permissions[topic][i].agent_id = agent_id}
    ELSE {}

\* C13: check_permission(topic, agent, required) returns true iff a
\* permission record exists for (topic, agent) and its level is >= required
\* in the order read < write < admin < owner; with no record it returns
\* false for every required level.
CheckPermissionIffRecordSuffices ==
    tv_ret.op = "check_permission" =>
        LET recs == RecordsOf(tv_ret.topic, tv_ret.agent_id) IN
        tv_ret.ret =
            (\E i \in recs :
                LevelRank(topic_permissions[tv_ret.topic][i].permission_level)
                    >= LevelRank(tv_ret.required_permission))

\* an agent granted write has just failed an admin check
WriteHolderFailsAdminCheck ==
    /\ tv_ret.op = "check_permission"
    /\ tv_ret.required_permission = "admin"
    /\ tv_ret.ret = FALSE
    /\ \E i \in RecordsOf(tv_ret.topic, tv_ret.agent_id) :
          topic_permissions[tv_ret.topic][i].permission_level = "write"

\* C14: there is at most one permission record per (topic, agent); a grant
\* to an agent that already has a record overwrites its level and granting
\* agent, so that after a grant exactly one record of the agent exists and
\* it carries the level and the granting agent of the call.
OneRecordPerTopicAndAgent ==
    /\ \A topic \in PermTopics, agent_id \in PermAgents :
          Cardinality(RecordsOf(topic, agent_id)) <= 1
    /\ tv_ret.op = "grant_permission" =>
          /\ Cardinality(RecordsOf(tv_ret.topic, tv_ret.agent_id)) = 1
          /\ \A i \in RecordsOf(tv_ret.topic, tv_ret.agent_id) :
                /\ topic_permissions[tv_ret.topic][i].permission_level
                      = tv_ret.permission_level
                /\ topic_permissions[tv_ret.topic][i].granted_by = tv_ret.granted_by

\* a grant has just overwritten the record of an agent that had one, while
\* the topic holds the record of another agent too
RepeatedGrantOverwrote ==
    /\ tv_ret.op = "grant_permission"
    /\ tv_ret.log = "Updated permission"
    /\ Len(topic_permissions[tv_ret.topic]) = 2

\* the name is the prefix followed by one or more characters of [a-z0-9-]
PrefixThenNameChars(prefix, name) ==
    /\ Len(name) > Len(prefix)
    /\ SubSeq(name, 1, Len(prefix)) = prefix
    /\ \A i \in (Len(prefix) + 1)..Len(name) : name[i] \in NameChars

\* the name matches the pattern of the type, for a type that has one
FitsTypePattern(topic_type, name) ==
    CASE topic_type = "team"    -> PrefixThenNameChars(S_teamDash, name)
      [] topic_type = "project" -> PrefixThenNameChars(S_projectDash, name)
      [] topic_type = "private" -> PrefixThenNameChars(S_privateDash, name)
      [] topic_type = "general" -> PrefixThenNameChars(<<>>, name)
      [] topic_type = "random"  -> name = S_random
      [] OTHER                  -> TRUE

\* C15: validate_topic_name(name, type) reports is_valid = true iff the
\* length is in [3,50], every character is in [a-z0-9-], the name has no
\* leading, trailing or consecutive hyphens, it is not a reserved name, and
\* (when a type with a pattern is given) it matches that type's pattern.
ValidIffNameRulesHold ==
    tv_val.op = "validate_topic_name" =>
        LET name == tv_val.topic_name IN
        tv_val.is_valid =
            (/\ Len(name) >= 3
             /\ Len(name) <= 50
             /\ \A i \in 1..Len(name) : name[i] \in NameChars
             /\ name[1] # "-"
             /\ name[Len(name)] # "-"
             /\ ~\E i \in 1..(Len(name) - 1) : name[i] = "-" /\ name[i + 1] = "-"
             /\ name \notin ReservedTopics
             /\ (~IsNone(tv_val.topic_type)
                    => FitsTypePattern(tv_val.topic_type[1], name)))

(***************************************************************************)
(* Claims about EnhancedAgent.                                             *)
(***************************************************************************)
\* the number of producer.send calls of the last send_message on a topic
PublishesTo(topic) ==
    Cardinality({i \in DOMAIN broker_sent : broker_sent[i].topic = topic})

\* C16: a send_message call whose publishes all succeed publishes the
\* message exactly once to its original topic and, for every additional
\* topic T the routing rule engine returned, at least once to T.
SendPublishesToFanOutTargets ==
    (agent_ret.op = "send_message" /\ agent_ret.raised = None) =>
        /\ PublishesTo(agent_ret.message.topic) = 1
        /\ \A T \in agent_ret.target_topics \ {agent_ret.message.topic} :
              PublishesTo(T) >= 1

\* the subscription registry selects a subscription of the agent for the
\* message: it is on the message's topic, active, and its filter matches
RegistrySelects(message) ==
    \E id \in SeqToSet(DictGet(subscriptions, message.topic, <<>>)) :
        /\ sub_heap[id].agent_id = AgentId
        /\ sub_heap[id].active
        /\ LET m == MessageMatchesFilter(message,
                                         SubFilterVal(sub_heap[id].filter_criteria))
           IN ~m.raised /\ m.value

\* C17: the agent hands an incoming message to a message-kind handler and
\* folds it into the conversation threader only if the subscription
\* registry selects the agent's subscription for it and the agent holds at
\* least read permission on its topic; otherwise the message is dropped
\* and the thread state stays as it was.
HandlesOnlySelectedAndPermitted ==
    [][agent_ret'.op = "_handle_message_advanced" =>
          \/ /\ RegistrySelects(agent_ret'.message)
             /\ CheckPermissionOn(topic_permissions, agent_ret'.message.topic,
                                  AgentId, "read")
          \/ /\ ~agent_ret'.folded
             /\ agent_ret'.handler = None
             /\ UNCHANGED <<threads, topic_threads, agent_threads, message_threads,
                            thread_messages, conversation_contexts>>]_vars

(***************************************************************************)
(* Claims about failing conditions and predicates.                         *)
(***************************************************************************)
\* the active rules of the list whose condition evaluates, without an
\* error, to true for the message
RulesMatchingCleanly(rules, message) ==
    {j \in 1..Len(rules) :
        /\ rules[j].active
        /\ ~EvaluateRuleBody(message, rules[j]).raised
        /\ EvaluateRuleBody(message, rules[j]).value}

\* C18: when the evaluation of an active rule's condition fails,
\* route_message still returns: the rule counts as a non-match, the rules
\* after it are evaluated, and the route history entry is recorded with the
\* targets returned and the rules that matched.
FailingRuleIsNonMatch ==
    (/\ router_ret.op = "route_message"
     /\ \E i \in 1..Len(routing_rules) :
           /\ routing_rules[i].active
           /\ EvaluateRuleBody(router_ret.message, routing_rules[i]).raised) =>
        LET ok == RulesMatchingCleanly(routing_rules, router_ret.message) IN
        /\ DOMAIN router_ret.ret =
              UNION {SeqToSet(routing_rules[j].target_topics) : j \in ok}
        /\ route_history # <<>>
        /\ LET route == route_history[Len(route_history)] IN
           /\ route.message = router_ret.message.id
           /\ route.target_topics = router_ret.ret
           /\ Len(route.routing_rules) = Cardinality(ok)
           /\ SeqToSet(route.routing_rules) = {routing_rules[j].rule_id : j \in ok}

\* a message routed through a rule whose predicate raises and, after it, a
\* rule that matches and whose targets are returned
RoutedPastFailingRule ==
    /\ router_ret.op = "route_message"
    /\ \E i, j \in 1..Len(routing_rules) :
          /\ i < j
          /\ routing_rules[i].active
          /\ EvaluateRuleBody(router_ret.message, routing_rules[i]).raised
          /\ j \in RulesMatchingCleanly(routing_rules, router_ret.message)
          /\ SeqToSet(routing_rules[j].target_topics) \subseteq DOMAIN router_ret.ret

\* C19: filter evaluation is total: whatever the message and the filter,
\* _message_matches_filter returns a boolean and lets no exception out, the
\* regular-expression clause included.
FilterEvaluationIsTotal ==
    flt_out.done =>
        /\ ~flt_out.result.raised
        /\ flt_out.result.value \in BOOLEAN

\* C20: routing calls and mutations of the rule list and the subscription
\* indexes made by different message flows never overlap: while a call is
\* between its first and its last statement no other call is, no other call
\* takes a step, and the rule list (the subscription lists and the active
\* flags) a routing call iterates stays as it is; so every routing call sees
\* each mutation entirely or not at all.
InProgress(t) == ev_tasks[t].pc \notin {"ready", "done"}

ActiveFlags(heap) == [i \in DOMAIN heap |-> heap[i].active]

RoutingSeesWholeMutations ==
    [][\A t \in DOMAIN ev_tasks :
          InProgress(t) =>
            /\ \A u \in DOMAIN ev_tasks \ {t} :
                  ~InProgress(u) /\ ev_tasks'[u] = ev_tasks[u]
            /\ ev_tasks[t].call[1] = "route_message" =>
                  routing_rules' = routing_rules
            /\ ev_tasks[t].call[1] = "subs.route_message" =>
                  /\ subscriptions' = subscriptions
                  /\ ActiveFlags(sub_heap') = ActiveFlags(sub_heap)]_vars

Mutations ==
    {"add_routing_rule", "remove_routing_rule", "update_rule",
     "subscribe_agent_to_topic", "unsubscribe_agent_from_topic", "pause_subscription"}

RouteUnderWayBesideMutation ==
    \E t, u \in DOMAIN ev_tasks :
        /\ ev_tasks[t].pc = "for"
        /\ ev_tasks[t].call[1] = "route_message"
        /\ ev_tasks[t].i = 2
        /\ routing_rules # <<>>
        /\ ev_tasks[u].pc = "ready"
        /\ ev_tasks[u].call[1] \in Mutations

\* C21: a task cancelled while handle_error waits between two attempts ends
\* there: CancelledError leaves handle_error, retry_func is not invoked again,
\* and nothing is recorded as for a failed attempt (no error on the
\* RetryAttempt, no retry_count, no new error history entry).
CancelledWhileSleeping ==
    /\ eh_task.pc = "sleep"
    /\ eh_task' # eh_task
    /\ eh_task'.pc # "call"

CancelledRetryAborts ==
    [][CancelledWhileSleeping =>
          /\ eh_task' = IdleTask
          /\ eh_ret'.op = "handle_error cancelled"
          /\ eh_ret'.raised = "CancelledError"
          /\ eh_ret'.invoked = eh_task.invoked
          /\ error_ctx' = error_ctx
          /\ error_history' = error_history
          /\ retry_history' = retry_history]_vars

CancelledAfterFirstAttempt ==
    /\ eh_ret.op = "handle_error cancelled"
    /\ eh_ret.invoked >= 1
    /\ eh_task.pc = "idle"
    /\ retry_history[Len(retry_history)].error = None

\* C22: whatever the strategy, the attempt and the configuration, the delay
\* _calculate_delay returns is at most the configured max_delay.
DelayNeverExceedsMaxDelay ==
    dly_out.done => dly_out.delay <= dly_in.config.max_delay

\* C23: for the attempt number a passed to _calculate_delay, the delay before
\* jitter and capping is 0 for immediate, base_delay for fixed, base_delay * a
\* for linear and base_delay * backoff_multiplier^a for exponential.
DelayBeforeJitterPerStrategy ==
    dly_out.done =>
        LET config == dly_in.config
            a == dly_in.attempt
        IN
        dly_out.before_jitter =
            (CASE config.strategy = "immediate" -> 0
               [] config.strategy = "fixed_delay" -> config.base_delay
               [] config.strategy = "linear_backoff" -> config.base_delay * a
               [] config.strategy = "exponential_backoff" ->
                     config.base_delay * Pow(config.backoff_multiplier, a))

\* C24: the error history entries one handle_error call appended, read after
\* the call in the order they were recorded, show retry counts that strictly
\* increase.
RetryCountsIncreaseWithinCall ==
    eh_task.pc = "idle" =>
        \A k, l \in 1..Len(error_history) :
            (k < l /\ error_history[k] = error_history[l])
                => error_ctx[error_history[k]].retry_count
                       < error_ctx[error_history[l]].retry_count

\* C25: after any sequence of add_routing_rule, remove_routing_rule,
\* update_rule, enable_rule, disable_rule and import_rules the rule list is in
\* non-increasing order of priority, and rules of equal priority are in the
\* order they were inserted.
RulesOrderedByPriorityThenInsertion ==
    \A i, j \in 1..Len(routing_rules) :
        i < j =>
            /\ routing_rules[i].priority >= routing_rules[j].priority
            /\ routing_rules[i].priority = routing_rules[j].priority
                  => routing_rules[i].added < routing_rules[j].added

\* C26: every MessageRouter.route_message call appends exactly one entry to
\* the route history, holding the message, the rules that matched and the
\* target set the call returns, also when no rule matched; the history never
\* holds more than max_history_size entries, and the oldest entry goes first.
MatchingRuleIds(rules, message) ==
    {rules[i].rule_id : i \in {j \in DOMAIN rules :
                                  rules[j].active /\ EvaluateRule(message, rules[j])}}

RouteAppendsOneHistoryEntry ==
    [][router_ret'.op = "route_message" =>
          LET n == Len(route_history')
              entry == route_history'[n]
              kept == IF Len(route_history) < MaxHistorySize THEN route_history
                      ELSE Tail(route_history)
          IN
          /\ n = Len(kept) + 1
          /\ n <= MaxHistorySize
          /\ SubSeq(route_history', 1, n - 1) = kept
          /\ entry.message = router_ret'.message.id
          /\ entry.target_topics = router_ret'.ret
          /\ SeqToSet(entry.routing_rules)
                = MatchingRuleIds(routing_rules, router_ret'.message)]_vars

HistoryFullAfterRouteWithoutMatch ==
    /\ router_ret.op = "route_message"
    /\ Len(route_history) = MaxHistorySize
    /\ route_history[1].message # route_history[MaxHistorySize].message
    /\ DOMAIN router_ret.ret = {}
    /\ route_history[MaxHistorySize].routing_rules = <<>>
    /\ routing_rules # <<>>

\* C27: no two rules of the rule list share a rule_id, so that once
\* remove_routing_rule(id) has returned True no rule with that id is left and
\* get_rule_by_id(id) gives None.
RuleIdsAreUnique ==
    /\ \A i, j \in 1..Len(routing_rules) :
          i # j => routing_rules[i].rule_id # routing_rules[j].rule_id
    /\ (router_ret.op = "remove_routing_rule" /\ router_ret.ret)
          => GetRuleById(routing_rules, router_ret.rule_id) = <<>>

\* C28: every message added is in the message list of exactly one thread,
\* exactly once, and message_threads maps its id to that thread; every thread
\* is listed under exactly one topic.
ThreadsHolding(id) ==
    {t \in DOMAIN thread_messages : id \in SeqToSet(thread_messages[t])}

MessageInOneThreadOnce ==
    /\ \A id \in DOMAIN message_threads :
          /\ ThreadsHolding(id) = {message_threads[id]}
          /\ CountIn(thread_messages[message_threads[id]], id) = 1
    /\ \A t \in DOMAIN threads :
          /\ Cardinality({topic \in DOMAIN topic_threads :
                             t \in SeqToSet(topic_threads[topic])}) = 1
          /\ \A topic \in DOMAIN topic_threads : CountIn(topic_threads[topic], t) <= 1

\* C29: once pause_subscription(agent, topic) has returned True, a
\* route_message call made before any resume_subscription returns no
\* subscription of that agent on that topic and leaves their delivery
\* counters as they are.
SubscriptionsOf(agent_id, topic) ==
    {id \in DOMAIN sub_heap :
        sub_heap[id].agent_id = agent_id /\ sub_heap[id].topic = topic}

PausedSubscriptionGetsNothing ==
    [][(/\ subs_ret.op = "pause_subscription"
        /\ subs_ret.ret
        /\ subs_ret'.op = "route_message")
          => \A id \in SubscriptionsOf(subs_ret.agent_id, subs_ret.topic) :
                /\ id \notin SeqToSet(subs_ret'.ret)
                /\ sub_heap'[id].message_count = sub_heap[id].message_count]_vars

\* C30: unsubscribe_agent_from_topic(agent, topic) returns True exactly when
\* the agent had a subscription on the topic; when it returns False the
\* registry is as before; afterwards the topic's list holds no subscription
\* of the agent and still holds every subscription of the other agents.
RegisteredOn(subs, topic) == SeqToSet(DictGet(subs, topic, <<>>))

UnsubscribeReturnsWhetherSubscribed ==
    [][subs_ret'.op = "unsubscribe" =>
          LET agent_id == subs_ret'.agent_id
              topic == subs_ret'.topic
              before == RegisteredOn(subscriptions, topic)
              after == RegisteredOn(subscriptions', topic)
          IN
          /\ subs_ret'.ret <=> (\E id \in before : sub_heap[id].agent_id = agent_id)
          /\ ~subs_ret'.ret =>
                /\ subscriptions' = subscriptions
                /\ agent_subscriptions' = agent_subscriptions
          /\ after = {id \in before : sub_heap[id].agent_id # agent_id}]_vars

(***************************************************************************)
(* The wording of the validation errors (core/topic_validator.py).         *)
(***************************************************************************)
\* the text of an entry of errors: the fixed words of the message each rule of
\* validate_topic_name appends
ErrorText(error) ==
    CASE error = "too short" ->
        <<"T","o","p","i","c"," ","n","a","m","e"," ","t","o","o"," ","s","h","o","r",
          "t">>
      [] error = "too long" ->
        <<"T","o","p","i","c"," ","n","a","m","e"," ","t","o","o"," ","l","o","n","g">>
      [] error = "is reserved" ->
        <<"i","s"," ","r","e","s","e","r","v","e","d">>
      [] error = "can only contain lowercase letters, numbers, and hyphens" ->
        <<"T","o","p","i","c"," ","n","a","m","e"," ","c","a","n"," ","o","n","l","y",
          " ","c","o","n","t","a","i","n"," ","l","o","w","e","r","c","a","s","e"," ",
          "l","e","t","t","e","r","s",","," ","n","u","m","b","e","r","s",","," ","a",
          "n","d"," ","h","y","p","h","e","n","s">>
      [] error = "cannot contain consecutive hyphens" ->
        <<"T","o","p","i","c"," ","n","a","m","e"," ","c","a","n","n","o","t"," ","c",
          "o","n","t","a","i","n"," ","c","o","n","s","e","c","u","t","i","v","e"," ",
          "h","y","p","h","e","n","s">>
      [] error = "cannot start or end with a hyphen" ->
        <<"T","o","p","i","c"," ","n","a","m","e"," ","c","a","n","n","o","t"," ","s",
          "t","a","r","t"," ","o","r"," ","e","n","d"," ","w","i","t","h"," ","a"," ",
          "h","y","p","h","e","n">>
      [] error = "does not match pattern" ->
        <<"T","o","p","i","c"," ","n","a","m","e"," ","d","o","e","s"," ","n","o","t",
          " ","m","a","t","c","h">>

S_invalidCharacters ==
    <<"i","n","v","a","l","i","d"," ","c","h","a","r","a","c","t","e","r","s">>

\* C33: validating a name that has a character outside [a-z0-9-] gives
\* is_valid = false and an error whose text contains "invalid characters"
InvalidCharactersAreNamed ==
    (/\ tv_val.op = "validate_topic_name"
     /\ \E i \in 1..Len(tv_val.topic_name) : tv_val.topic_name[i] \notin NameChars)
    => /\ ~tv_val.is_valid
       /\ \E k \in 1..Len(tv_val.errors) :
             StrIn(S_invalidCharacters, ErrorText(tv_val.errors[k]))

\* C34: under a strategy other than immediate every invocation of
\* retry_func is preceded by a sleep: the task reaches the call of
\* retry_func only from `await asyncio.sleep(delay)`
RetryInvocationFollowsSleep ==
    [][(/\ eh_task'.pc = "call"
        /\ eh_task.pc # "call"
        /\ retry_config.strategy # "immediate")
       => eh_task.pc = "sleep"]_vars

\* C35: a retry invocation that succeeds ends the sequence: handle_error
\* returns that invocation's result, the attempt is marked successful and
\* retry_func is not invoked again; retry_func is invoked at most
\* max_retries times in one sequence, never when max_retries = 0
SuccessfulRetryEndsSequence ==
    [][/\ (/\ eh_task.pc = "call"
           /\ ~FuncOutcome(eh_task.func, eh_task.invoked + 1).raised)
          => /\ eh_task'.pc = "idle"
             /\ eh_ret'.op = "handle_error"
             /\ eh_ret'.ctx = eh_task.ctx
             /\ eh_ret'.ret = FuncOutcome(eh_task.func, eh_task.invoked + 1).value
             /\ eh_ret'.invoked = eh_task.invoked + 1
             /\ retry_history'[eh_task.ra].success
             /\ retry_history'[eh_task.ra].attempt_number = eh_task.attempt + 1
       /\ eh_task'.pc # "idle" => eh_task'.invoked <= retry_config'.max_retries
       /\ eh_ret'.op = "handle_error" => eh_ret'.invoked <= retry_config'.max_retries
      ]_vars

\* the second retry of a call succeeded and its result was returned
SecondRetrySucceeded ==
    /\ eh_ret.op = "handle_error"
    /\ eh_ret.func = "timeout_then_ok"
    /\ eh_ret.invoked = 2
    /\ eh_ret.ret = "result"
    /\ retry_history[Len(retry_history)].success

\* C36: when a publish fails inside send_message, the failure is recorded
\* in the error history of the agent's error handler and no exception
\* leaves send_message
FailedPublishIsRecordedNotRaised ==
    [][(/\ agent_ret'.op = "send_message"
        /\ agent_ret' # agent_ret
        /\ Len(broker_sent') <
              Len(SendCalls(agent_ret'.message, agent_ret'.target_topics)))
       => /\ agent_ret'.raised = None
          /\ Len(error_ctx') > Len(error_ctx)
          /\ error_history' # <<>>
          /\ error_history'[Len(error_history')] = Len(error_ctx')]_vars

\* C39: after any create_thread and add_message_to_thread calls, every
\* thread's message_count is the length of the thread's message list
MessageCountIsListLength ==
    \A thread_id \in DOMAIN threads :
        threads[thread_id].message_count =
            Len(DictGet(thread_messages, thread_id, <<>>))

\* the thread ids the manager's dicts refer to: the keys of thread_messages
\* with a message stored, and the ids held in message_threads,
\* topic_threads and agent_threads
ReferencedThreadIds ==
    {t \in DOMAIN thread_messages : thread_messages[t] # <<>>}
    \cup {message_threads[m] : m \in DOMAIN message_threads}
    \cup UNION {SeqToSet(topic_threads[t]) : t \in DOMAIN topic_threads}
    \cup UNION {agent_threads[a] : a \in DOMAIN agent_threads}

\* C40: every thread id that has stored messages or is referenced from
\* message_threads, topic_threads or agent_threads has a record in threads,
\* and every message stored under a thread has the thread's topic
ThreadsClosedUnderReference ==
    /\ ReferencedThreadIds \subseteq DOMAIN threads
    /\ \A t \in DOMAIN thread_messages \cap DOMAIN threads :
          \A i \in 1..Len(thread_messages[t]) :
              conv_msgs[thread_messages[t][i]].topic = threads[t].topic

(***************************************************************************)
(* Claims about closed and archived threads.                               *)
(***************************************************************************)
\* the active threads whose last activity is older than the timeout at the
\* time now
OldActiveThreads(now) ==
    {t \in DOMAIN threads :
        threads[t].is_active /\ now - threads[t].last_activity > ThreadTimeout}

\* C32: archive_old_threads marks inactive exactly the active threads whose
\* last activity is older than the timeout, returns their number and leaves
\* every other thread as it was; a thread that is closed or archived never
\* becomes active again, and add_message_to_thread without a thread id
\* never selects it
ArchivedThreadsStayInactive ==
    [][/\ (/\ conv_log' # <<>>
           /\ conv_log'[Len(conv_log')].op = "archive_old_threads"
           /\ conv_log' # conv_log)
          => /\ conv_log'[Len(conv_log')].ret = Cardinality(OldActiveThreads(conv_now))
             /\ DOMAIN threads' = DOMAIN threads
             /\ \A t \in DOMAIN threads :
                   threads'[t] = IF t \in OldActiveThreads(conv_now)
                                 THEN [threads[t] EXCEPT !.is_active = FALSE]
                                 ELSE threads[t]
       /\ \A t \in DOMAIN threads :
             ~threads[t].is_active => (t \in DOMAIN threads' /\ ~threads'[t].is_active)
       /\ (/\ Len(conv_msgs') = Len(conv_msgs) + 1
           /\ conv_log' # <<>>
           /\ conv_log'[Len(conv_log')].op = "add_message_to_thread")
          => LET ret == conv_log'[Len(conv_log')].ret IN
             ret \in DOMAIN threads => threads[ret].is_active
      ]_vars

\* archive_old_threads has archived one of two threads, and a message was
\* then added without a thread id
MessageAddedAfterArchive ==
    /\ Len(conv_log) = 2
    /\ conv_log[1].op = "archive_old_threads"
    /\ conv_log[1].ret = 1
    /\ conv_log[2].op = "add_message_to_thread"
    /\ \E t \in DOMAIN threads : ~threads[t].is_active
    /\ \E t \in DOMAIN threads : threads[t].is_active

(***************************************************************************)
(* Claims about TopicManager and about the MessageBroker shared by agents. *)
(***************************************************************************)
\* C31: delete_topic by an agent that did not create the topic succeeds
\* when the topic is public and is refused when it is private; deletion by
\* the creator succeeds; a refused deletion changes nothing, and a
\* successful one removes the topic from every agent's subscription set
DeleteStricterForPrivateTopics ==
    [][(/\ tm_ret'.op = "delete_topic"
        /\ tm_ret' # tm_ret
        /\ DictHas(tm_topics, tm_ret'.topic_name))
       => LET topic == tm_topics[tm_ret'.topic_name]
              deleted_by == tm_ret'.agent_id
          IN
          /\ topic.created_by = deleted_by => tm_ret'.ret
          /\ topic.created_by # deleted_by => (tm_ret'.ret = ~topic.is_private)
          /\ ~tm_ret'.ret =>
                /\ tm_topics' = tm_topics
                /\ tm_agent_subscriptions' = tm_agent_subscriptions
          /\ tm_ret'.ret =>
                /\ ~DictHas(tm_topics', topic.name)
                /\ \A a \in DOMAIN tm_agent_subscriptions' :
                      topic.name \notin tm_agent_subscriptions'[a]]_vars

\* C37: a subscribe_to_topic(topic, agent_id, handler) call that returns
\* without error leaves handler registered for topic and invoked for the
\* messages delivered on it, also when another agent has subscribed to the
\* topic through the same broker; an agent's unsubscribing leaves the
\* other agents' handlers invoked
EverySubscriberIsDelivered ==
    [][/\ (/\ mb_ret'.op = "subscribe_to_topic"
           /\ mb_ret' # mb_ret
           /\ mb_ret'.raised = None)
          => /\ DictHas(mb_message_handlers', mb_ret'.topic)
             /\ mb_message_handlers'[mb_ret'.topic] = mb_ret'.handler
             /\ mb_ret'.handler \in HandlersInvokedOn(mb_tasks', mb_ret'.topic)
       /\ (/\ mb_ret'.op = "unsubscribe_from_topic"
           /\ mb_ret' # mb_ret)
          => \A h \in HandlersInvokedOn(mb_tasks, mb_ret'.topic) :
                h # HandlerOf(mb_ret'.agent_id)
                   => h \in HandlersInvokedOn(mb_tasks', mb_ret'.topic)]_vars

\* the subscription objects listed under topic in self.subscriptions, and
\* under agent_id in self.agent_subscriptions
InTopicIndex(topic) == SeqToSet(DictGet(subscriptions, topic, <<>>))
InAgentIndex(agent_id) == SeqToSet(DictGet(agent_subscriptions, agent_id, <<>>))

\* C38: after any subscribe, unsubscribe, pause, resume and update-filter
\* calls the two indexes hold the same subscription records: a record is in
\* subscriptions[t] with agent a iff it is in agent_subscriptions[a] with
\* topic t, and neither index holds an empty list
IndexesHoldSameRecords ==
    /\ \A id \in 1..Len(sub_heap), t \in SubTopics, a \in Agents :
          (id \in InTopicIndex(t) /\ sub_heap[id].agent_id = a)
             <=> (id \in InAgentIndex(a) /\ sub_heap[id].topic = t)
    /\ \A t \in DOMAIN subscriptions : subscriptions[t] # <<>>
    /\ \A a \in DOMAIN agent_subscriptions : agent_subscriptions[a] # <<>>

\* an agent has unsubscribed from a topic that another agent stays
\* subscribed to: the topic keeps its list, the agent's list is gone
UnsubscribedFromSharedTopic ==
    /\ subs_ret.op = "unsubscribe"
    /\ subs_ret.ret
    /\ Len(sub_heap) = 2
    /\ DictHas(subscriptions, subs_ret.topic)
    /\ Len(subscriptions[subs_ret.topic]) = 1
    /\ ~DictHas(agent_subscriptions, subs_ret.agent_id)
    /\ Cardinality(DOMAIN agent_subscriptions) = 1
=============================================================================
